---------------------------- MODULE Spec2Model ----------------------------
(***************************************************************************)
(* Session store and calculation gate of the illuminate API                *)
(* (src/api/api/v1/session_manager.py, resource_limits.py and the          *)
(* calculate handler of session_routers.py).                               *)
(*                                                                         *)
(* Several specifications share this module:                               *)
(*   Spec / LiveSpec  the calculation gate: admission check, the asyncio  *)
(*                    semaphore, the thread pool and the two timeouts;     *)
(*   StoreSpec        the SessionManager: create/get/delete/sweep under    *)
(*                    its re-entrant lock;                                 *)
(*   HandlerSpec / HandlerLiveSpec                                         *)
(*                    request threads that use the store and then call the *)
(*                    engine (time estimate or calculation);               *)
(*   AdmissionSpec    check_budget applied to estimates and additional     *)
(*                    costs around the two ceilings;                       *)
(*   EstimateSpec     estimate_session_cost and check_budget applied to    *)
(*                    sessions with zones, lamps and reflectance;          *)
(*   MutationSpec     the handlers that change a session's model, with     *)
(*                    and without a speculative admission check;           *)
(*   LoopSpec         start_cleanup / stop_cleanup and the sweep loop      *)
(*                    threads they create;                                 *)
(*   EditSpec         init_session / load_session replacing a session's    *)
(*                    model while estimate_session_cost reads it;          *)
(*   AuthSpec         the get_session / get_or_create_session dependencies *)
(*                    and the bearer token they check.                     *)
(* Each specification leaves the other parts' variables unchanged.         *)
(***************************************************************************)
EXTENDS Integers, Sequences, FiniteSets, TLC

(***************************************************************************)
(* Bounds.  MAX_CONCURRENT_CALCULATIONS (4 in resource_limits.py:27) is    *)
(* scaled down so that a model with one request more than the ceiling      *)
(* stays small; the properties are stated for the ceiling, whatever it is. *)
(***************************************************************************)
MAX_CONCURRENT_CALCULATIONS == 2

NumRequests == 3

Requests == 1..NumRequests

Sessions == {1, 2}

(***************************************************************************)
(* Bounds of the store model.  MAX_CONCURRENT_SESSIONS (500 in             *)
(* resource_limits.py:25) and SESSION_TIMEOUT_SECONDS (30 * 60 in          *)
(* session_manager.py:30) are scaled down; time is counted in ticks.       *)
(***************************************************************************)
MAX_CONCURRENT_SESSIONS == 2

SESSION_TIMEOUT_SECONDS == 1

NumSessionIds == 3

NumThreads == 2

MaxTime == 2

(***************************************************************************)
(* Bounds of the edit model: the number of lamps and of zones in the       *)
(* request of init_session (or in the file of load_session).               *)
(***************************************************************************)
NumLamps == 2

(***************************************************************************)
(* Bound of the sweep-loop model: how many threads start_cleanup can       *)
(* create in one run.                                                      *)
(***************************************************************************)
NumLoopThreads == 3

LoopThreads == 1..NumLoopThreads

\* self._cleanup_thread = None
NoThread == 0

NumZones == 2

SessionIds == 1..NumSessionIds

Threads == 1..NumThreads

\* create_session(session_id=None): the identifier is generated (uuid4).
NoId == 0

\* The session a calculate request belongs to (X-Session-ID of the request):
\* requests 1 and 3 share a session, request 2 has its own.
owner(r) == IF r % 2 = 1 THEN 1 ELSE 2

(***************************************************************************)
(* Program constants of resource_limits.py.                                *)
(***************************************************************************)
MAX_SESSION_BUDGET == 50000000

CALCULATION_TIMEOUT_SECONDS == 300

MAX_CALC_TIME_SECONDS == (CALCULATION_TIMEOUT_SECONDS * 8) \div 10

(***************************************************************************)
(* What the gate sees of a session's model: the estimate that              *)
(* estimate_session_cost returns for it (budget units and the engine's     *)
(* time prediction).  Synchronous handlers running on other threads may    *)
(* replace it at any moment.  Session 1 moves between a small model and    *)
(* one just above the unit ceiling, session 2 between a small model and    *)
(* one just above the time ceiling.                                        *)
(***************************************************************************)
SmallModel == [budget_units |-> 50250, calc_time_seconds |-> 10]

ModelChoices(s) ==
    IF s = 1
    THEN { SmallModel, [budget_units |-> 50000001, calc_time_seconds |-> 10] }
    ELSE { SmallModel, [budget_units |-> 50250, calc_time_seconds |-> 241] }

VARIABLES
    pc,         \* gate: position of each calculate request
    sem,        \* gate: _calc_semaphore (created, _value, _waiters, woken futures)
    job,        \* gate: state of the request's work item in _calc_executor
    poolQueue,  \* gate: work queue of _calc_executor (FIFO)
    hist,       \* gate: what each request has done so far (history)
    model,      \* gate: each session's current cost estimate
    sessions,   \* store: SessionManager._sessions
    lock,       \* store: SessionManager._lock (owner, depth)
    tpc,        \* store: position of each thread inside a store operation
    op,         \* store: the operation each thread is performing
    result,     \* store: what the last finished store operation returned
    refused,    \* store: some create has failed with the capacity error (history)
    now,        \* store: time.time()
    expired,    \* store: the list "expired" of each thread inside cleanup_expired
    room,       \* edit: the room session.room refers to (revision)
    lamp_id_map,\* edit: session.lamp_id_map (revision, entries)
    zone_id_map,\* edit: session.zone_id_map (revision, entries)
    ipc,        \* edit: position of the init_session / load_session handler
    epc,        \* edit: position of the thread inside estimate_session_cost
    seen,       \* edit: what estimate_session_cost has read so far
    running,    \* loop: SessionManager._running
    cleanup_thread, \* loop: SessionManager._cleanup_thread
    loops,      \* loop: where each thread created by start_cleanup is
    joining,    \* loop: the thread stop_cleanup is joining, if it is
    additional_cost, \* admission: the additional_cost argument of check_budget
    verdict,    \* admission: how check_budget ended
    the_session,\* cost: one Session (zone_id_map, lamp_id_map, room.ref_manager, ...)
    reply,      \* cost: what the last handler or function call answered
    DEV_MODE,   \* auth: session_routers.DEV_MODE, read from the environment at import
    vault,      \* auth: SessionManager._sessions, each Session with its token_hash
    caller      \* auth: each request inside get_session / get_or_create_session

gateVars == <<pc, sem, job, poolQueue, hist, model>>

storeVars == <<sessions, lock, tpc, op, result, refused, now, expired>>

editVars == <<room, lamp_id_map, zone_id_map, ipc, epc, seen>>

loopVars == <<running, cleanup_thread, loops, joining>>

checkVars == <<additional_cost, verdict>>

costVars == <<the_session, reply>>

authVars == <<DEV_MODE, vault, caller>>

vars ==
    <<pc, sem, job, poolQueue, hist, model,
      sessions, lock, tpc, op, result, refused, now, expired,
      room, lamp_id_map, zone_id_map, ipc, epc, seen,
      running, cleanup_thread, loops, joining, additional_cost, verdict,
      the_session, reply, DEV_MODE, vault, caller>>

\* What an action of one part leaves alone.
besidesGate == <<storeVars, editVars, loopVars, checkVars, costVars, authVars>>

besidesStore == <<gateVars, editVars, loopVars, checkVars, costVars, authVars>>

besidesEdit == <<gateVars, storeVars, loopVars, checkVars, costVars, authVars>>

besidesLoop == <<gateVars, editVars, checkVars, costVars, authVars>>

besidesCheck == <<gateVars, storeVars, editVars, loopVars, costVars, authVars>>

besidesCost == <<gateVars, storeVars, editVars, loopVars, checkVars, authVars>>

besidesAuth == <<gateVars, storeVars, editVars, loopVars, checkVars, costVars>>

(***************************************************************************)
(* Helpers on sequences.                                                   *)
(***************************************************************************)
RECURSIVE Count(_, _)
Count(s, e) ==
    IF s = <<>> THEN 0
    ELSE (IF Head(s) = e THEN 1 ELSE 0) + Count(Tail(s), e)

Remove(s, e) == SelectSeq(s, LAMBDA x : x # e)

Elems(s) == { s[i] : i \in 1..Len(s) }

(***************************************************************************)
(* resource_limits.py: the admission check.  The estimate is recomputed    *)
(* from the session on every call.                                         *)
(***************************************************************************)
estimate_session_cost(s) == model[s]

\* Variant: with an additional cost, only that cost is held against the ceiling.
budget_exceeded_delta_alone(estimate, cost) ==
    IF cost > 0 THEN cost > MAX_SESSION_BUDGET
    ELSE estimate.budget_units > MAX_SESSION_BUDGET

\* Variant: a total equal to the ceiling counts as exceeding it.
budget_exceeded_at_ceiling(estimate, cost) ==
    estimate.budget_units + cost >= MAX_SESSION_BUDGET

budget_exceeded(estimate, cost) ==
    estimate.budget_units + cost > MAX_SESSION_BUDGET

time_exceeded(estimate) ==
    estimate.calc_time_seconds > MAX_CALC_TIME_SECONDS

\* check_budget returns normally (TRUE) or raises the 400 rejection (FALSE).
check_budget(s, cost) ==
    LET estimate == estimate_session_cost(s)
    IN  ~budget_exceeded(estimate, cost) /\ ~time_exceeded(estimate)

(***************************************************************************)
(* asyncio.Semaphore as the handler uses it.  woken is the set of waiters  *)
(* whose future has been given a result (a permit) but whose task has not  *)
(* run yet; they stay in _waiters until their task resumes.  A waiter      *)
(* whose task is cancelled leaves _waiters in the step that delivers the   *)
(* cancellation, so every waiter in the deque is "not cancelled".          *)
(***************************************************************************)
NoSemaphore == [created |-> FALSE, value |-> 0, waiters |-> <<>>, woken |-> {}]

\* Variants of _get_calc_semaphore with a slip: a new semaphore on every call,
\* and one permit too many.
get_calc_semaphore_always_new(s) ==
    [created |-> TRUE, value |-> MAX_CONCURRENT_CALCULATIONS,
     waiters |-> <<>>, woken |-> {}]

get_calc_semaphore_one_too_many(s) ==
    IF s.created THEN s
    ELSE [created |-> TRUE, value |-> MAX_CONCURRENT_CALCULATIONS + 1,
          waiters |-> <<>>, woken |-> {}]

\* _get_calc_semaphore: created on first use with MAX_CONCURRENT_CALCULATIONS permits.
get_calc_semaphore(s) ==
    IF s.created THEN s
    ELSE [created |-> TRUE, value |-> MAX_CONCURRENT_CALCULATIONS,
          waiters |-> <<>>, woken |-> {}]

\* Semaphore.locked(): no permit left, or somebody is already waiting.
locked(s) == s.value = 0 \/ s.waiters # <<>>

\* Semaphore._wake_up_next(): hand a permit to the first waiter not yet done.
wake_up_next(s) ==
    LET pending == SelectSeq(s.waiters, LAMBDA w : w \notin s.woken)
    IN  IF pending = <<>> THEN s
        ELSE [s EXCEPT !.value = @ - 1, !.woken = @ \cup {Head(pending)}]

\* Semaphore.release().
release(s) == wake_up_next([s EXCEPT !.value = @ + 1])

\* The tail of Semaphore.acquire() once the waiter's future has a result.
acquire_resume(s, r) ==
    LET left == [s EXCEPT !.waiters = Remove(@, r), !.woken = @ \ {r}]
    IN  IF left.value > 0 THEN wake_up_next(left) ELSE left

\* Semaphore.acquire() when the waiting task is cancelled by the queue timeout:
\* a permit that had already been handed to the waiter is given back.
acquire_cancelled(s, r) ==
    LET left == [s EXCEPT !.waiters = Remove(@, r), !.woken = @ \ {r}]
    IN  IF r \in s.woken THEN wake_up_next([left EXCEPT !.value = @ + 1])
        ELSE left

(***************************************************************************)
(* _calc_executor = ThreadPoolExecutor(max_workers=MAX_CONCURRENT_         *)
(* CALCULATIONS): work items wait in a FIFO queue until a worker is idle.  *)
(***************************************************************************)
max_workers == MAX_CONCURRENT_CALCULATIONS

BusyWorkers == { r \in Requests : job[r] = "running" }

Terminal == {"Rejected", "TimedOutQueued", "Completed", "TimedOutRunning", "Failed"}

(***************************************************************************)
(* calculate_session, one action per stretch between suspension points.    *)
(***************************************************************************)

\* Variant: the rejection is logged but the handler carries on.
CheckBudget_ignores_failure(r) ==
    /\ pc[r] = "Requested"
    /\ pc' = [pc EXCEPT ![r] = "Admitted"]
    /\ hist' = [hist EXCEPT ![r] = IF check_budget(owner(r), 0)
                                   THEN Append(@, "admit") ELSE @]
    /\ UNCHANGED <<sem, job, poolQueue, model>>
    /\ UNCHANGED besidesGate

\* Variant: the pre-flight check holds the units against their ceiling and
\* forgets the time ceiling.
CheckBudget_units_only(r) ==
    /\ pc[r] = "Requested"
    /\ IF ~budget_exceeded(estimate_session_cost(owner(r)), 0)
       THEN /\ pc' = [pc EXCEPT ![r] = "Admitted"]
            /\ hist' = [hist EXCEPT ![r] = Append(@, "admit")]
       ELSE /\ pc' = [pc EXCEPT ![r] = "Rejected"]
            /\ hist' = hist
    /\ UNCHANGED <<sem, job, poolQueue, model>>
    /\ UNCHANGED besidesGate

\* check_budget(session): pre-flight admission; a failure is the 400 rejection.
CheckBudget(r) ==
    /\ pc[r] = "Requested"
    /\ IF check_budget(owner(r), 0)
       THEN /\ pc' = [pc EXCEPT ![r] = "Admitted"]
            /\ hist' = [hist EXCEPT ![r] = Append(@, "admit")]
       ELSE /\ pc' = [pc EXCEPT ![r] = "Rejected"]
            /\ hist' = hist
    /\ UNCHANGED <<sem, job, poolQueue, model>>
    /\ UNCHANGED besidesGate

\* Variant: a session runs one computation at a time; a request whose
\* session already has a computation Running waits although a permit is free.
AcquireSlot_one_per_session(r) ==
    /\ pc[r] = "Admitted"
    /\ LET s == get_calc_semaphore(sem)
           busy == \E q \in Requests \ {r} : owner(q) = owner(r) /\ pc[q] = "Running"
       IN  IF ~locked(s) /\ ~busy
           THEN /\ sem' = [s EXCEPT !.value = @ - 1]
                /\ pc' = [pc EXCEPT ![r] = "Running"]
                /\ job' = [job EXCEPT ![r] = "pending"]
                /\ poolQueue' = Append(poolQueue, r)
                /\ hist' = [hist EXCEPT ![r] = @ \o <<"ask", "acquire", "dispatch">>]
           ELSE /\ sem' = [s EXCEPT !.waiters = Append(@, r)]
                /\ pc' = [pc EXCEPT ![r] = "Queued"]
                /\ hist' = [hist EXCEPT ![r] = Append(@, "ask")]
                /\ UNCHANGED <<job, poolQueue>>
    /\ UNCHANGED model
    /\ UNCHANGED besidesGate

\* async with asyncio.timeout(QUEUE_TIMEOUT_SECONDS): await calc_semaphore.acquire()
\* A free permit is taken without suspending and the computation is handed to
\* the pool in the same stretch; otherwise the request joins the waiters.
AcquireSlot(r) ==
    /\ pc[r] = "Admitted"
    /\ LET s == get_calc_semaphore(sem)
       IN  IF ~locked(s)
           THEN /\ sem' = [s EXCEPT !.value = @ - 1]
                /\ pc' = [pc EXCEPT ![r] = "Running"]
                /\ job' = [job EXCEPT ![r] = "pending"]
                /\ poolQueue' = Append(poolQueue, r)
                /\ hist' = [hist EXCEPT ![r] = @ \o <<"ask", "acquire", "dispatch">>]
           ELSE /\ sem' = [s EXCEPT !.waiters = Append(@, r)]
                /\ pc' = [pc EXCEPT ![r] = "Queued"]
                /\ hist' = [hist EXCEPT ![r] = Append(@, "ask")]
                /\ UNCHANGED <<job, poolQueue>>
    /\ UNCHANGED model
    /\ UNCHANGED besidesGate

\* The waiter's task resumes with the permit: acquire() returns and the
\* computation is handed to the pool (loop.run_in_executor).
SlotGranted(r) ==
    /\ pc[r] = "Queued"
    /\ r \in sem.woken
    /\ sem' = acquire_resume(sem, r)
    /\ pc' = [pc EXCEPT ![r] = "Running"]
    /\ job' = [job EXCEPT ![r] = "pending"]
    /\ poolQueue' = Append(poolQueue, r)
    /\ hist' = [hist EXCEPT ![r] = @ \o <<"acquire", "dispatch">>]
    /\ UNCHANGED model
    /\ UNCHANGED besidesGate

\* Variant: acquire() sits inside the try whose finally releases the semaphore.
QueueTimeout_releases(r) ==
    /\ pc[r] = "Queued"
    /\ sem' = release(acquire_cancelled(sem, r))
    /\ pc' = [pc EXCEPT ![r] = "TimedOutQueued"]
    /\ hist' = [hist EXCEPT ![r] = Append(@, "release")]
    /\ UNCHANGED <<job, poolQueue, model>>
    /\ UNCHANGED besidesGate

\* The queue-wait timer fires while the request is still inside acquire():
\* TimeoutError -> HTTP 503.
QueueTimeout(r) ==
    /\ pc[r] = "Queued"
    /\ sem' = acquire_cancelled(sem, r)
    /\ pc' = [pc EXCEPT ![r] = "TimedOutQueued"]
    /\ UNCHANGED <<job, poolQueue, hist, model>>
    /\ UNCHANGED besidesGate

\* A pool worker is idle and takes the oldest work item: room.calculate starts.
PoolStart(r) ==
    /\ poolQueue # <<>>
    /\ Head(poolQueue) = r
    /\ Cardinality(BusyWorkers) < max_workers
    /\ job' = [job EXCEPT ![r] = "running"]
    /\ poolQueue' = Tail(poolQueue)
    /\ UNCHANGED <<pc, sem, hist, model>>
    /\ UNCHANGED besidesGate

\* session.room.calculate returns or raises in its worker thread.  The request
\* may already have timed out; then nobody looks at the outcome.
EngineReturn(r) ==
    /\ job[r] = "running"
    /\ \E outcome \in {"returned", "raised"} :
          job' = [job EXCEPT ![r] = IF pc[r] = "Running" THEN outcome ELSE "finished"]
    /\ UNCHANGED <<pc, sem, poolQueue, hist, model>>
    /\ UNCHANGED besidesGate

\* Variant: release() at the end of the try block instead of in finally.
Complete_release_on_success_only(r) ==
    /\ pc[r] = "Running"
    /\ job[r] = "returned"
    /\ job' = [job EXCEPT ![r] = "finished"]
    /\ \/ /\ pc' = [pc EXCEPT ![r] = "Completed"]
          /\ sem' = release(sem)
          /\ hist' = [hist EXCEPT ![r] = Append(@, "release")]
       \/ /\ pc' = [pc EXCEPT ![r] = "Failed"]
          /\ UNCHANGED <<sem, hist>>
    /\ UNCHANGED <<poolQueue, model>>
    /\ UNCHANGED besidesGate

\* wait_for returned: results are collected (which may itself raise and is then
\* reported through _log_and_raise); finally: calc_semaphore.release().
Complete(r) ==
    /\ pc[r] = "Running"
    /\ job[r] = "returned"
    /\ \E outcome \in {"Completed", "Failed"} : pc' = [pc EXCEPT ![r] = outcome]
    /\ job' = [job EXCEPT ![r] = "finished"]
    /\ sem' = release(sem)
    /\ hist' = [hist EXCEPT ![r] = Append(@, "release")]
    /\ UNCHANGED <<poolQueue, model>>
    /\ UNCHANGED besidesGate

\* The engine raised: except Exception -> _log_and_raise; finally: release().
EngineFail(r) ==
    /\ pc[r] = "Running"
    /\ job[r] = "raised"
    /\ pc' = [pc EXCEPT ![r] = "Failed"]
    /\ job' = [job EXCEPT ![r] = "finished"]
    /\ sem' = release(sem)
    /\ hist' = [hist EXCEPT ![r] = Append(@, "release")]
    /\ UNCHANGED <<poolQueue, model>>
    /\ UNCHANGED besidesGate

\* Variants: the 408 path leaves without releasing; wait_for has no timeout.
ExecTimeout_without_release(r) ==
    /\ pc[r] = "Running"
    /\ pc' = [pc EXCEPT ![r] = "TimedOutRunning"]
    /\ job' = [job EXCEPT ![r] = CASE @ = "pending" -> "cancelled"
                                   [] @ = "running" -> "running"
                                   [] OTHER         -> "finished"]
    /\ poolQueue' = Remove(poolQueue, r)
    /\ UNCHANGED <<sem, hist, model>>
    /\ UNCHANGED besidesGate

ExecTimeout_never_fires(r) ==
    /\ FALSE
    /\ UNCHANGED vars

\* The execution timer of wait_for fires: the future is cancelled (a work item
\* not yet started is dropped, one being executed keeps its worker until the
\* engine call returns), HTTP 408 is raised; finally: calc_semaphore.release().
ExecTimeout(r) ==
    /\ pc[r] = "Running"
    /\ pc' = [pc EXCEPT ![r] = "TimedOutRunning"]
    /\ job' = [job EXCEPT ![r] = CASE @ = "pending" -> "cancelled"
                                   [] @ = "running" -> "running"
                                   [] OTHER         -> "finished"]
    /\ poolQueue' = Remove(poolQueue, r)
    /\ sem' = release(sem)
    /\ hist' = [hist EXCEPT ![r] = Append(@, "release")]
    /\ UNCHANGED model
    /\ UNCHANGED besidesGate

\* Any synchronous handler (init, add zone, update room, ...) running on
\* another thread changes the session's model and with it its estimate.
UpdateModel(s) ==
    /\ \E m \in ModelChoices(s) \ {model[s]} : model' = [model EXCEPT ![s] = m]
    /\ UNCHANGED <<pc, sem, job, poolQueue, hist>>
    /\ UNCHANGED besidesGate

(***************************************************************************)
(* The model state of one session as the handlers see it: the room and the *)
(* two identifier maps.  Revision 0 is the model before init_session or    *)
(* load_session runs, revision 1 the one it builds; a map is a revision    *)
(* and the number of entries it holds so far.                              *)
(***************************************************************************)
OldRoom == 0

NewRoom == 1

OldLamps == [rev |-> OldRoom, entries |-> NumLamps]

OldZones == [rev |-> OldRoom, entries |-> NumZones]

\* session.lamp_id_map = {} ; session.zone_id_map = {}
EmptyMap == [rev |-> NewRoom, entries |-> 0]

NothingSeen == [zones |-> EmptyMap, lamps |-> EmptyMap, room |-> OldRoom]

EditIdle ==
    /\ room = OldRoom
    /\ lamp_id_map = OldLamps
    /\ zone_id_map = OldZones
    /\ ipc = "idle"
    /\ epc = "idle"
    /\ seen = NothingSeen

\* Session(id=...): empty maps; no handler has answered.
NoReply == [handler |-> "none"]

EmptyModel ==
    [zone_id_map |-> <<>>, lamp_id_map |-> <<>>,
     ref_manager |-> [enabled |-> FALSE, max_num_passes |-> 0, surfaces |-> <<>>],
     calc_time |-> 0]

CostIdle ==
    /\ the_session = EmptyModel
    /\ reply = NoReply

\* No request is inside a session dependency and no session is stored.
AuthIdle ==
    /\ DEV_MODE = FALSE
    /\ vault = <<>>
    /\ caller = <<>>

\* No call of check_budget with an additional cost is under way.
CheckIdle ==
    /\ additional_cost = 0
    /\ verdict = "none"

\* SessionManager.__init__: no cleanup thread, not running.
LoopIdle ==
    /\ running = FALSE
    /\ cleanup_thread = NoThread
    /\ loops = [l \in LoopThreads |-> "unborn"]
    /\ joining = NoThread

GateInit ==
    /\ pc = [r \in Requests |-> "Requested"]
    /\ sem = NoSemaphore
    /\ job = [r \in Requests |-> "none"]
    /\ poolQueue = <<>>
    /\ hist = [r \in Requests |-> <<>>]
    /\ model \in { m \in [Sessions -> UNION { ModelChoices(s) : s \in Sessions }] :
                      \A s \in Sessions : m[s] \in ModelChoices(s) }

StoreIdle ==
    /\ sessions = <<>>
    /\ lock = [owner |-> 0, depth |-> 0]
    /\ tpc = <<>>
    /\ op = <<>>
    /\ result = [tag |-> "none", count |-> 0]
    /\ refused = FALSE
    /\ now = 0
    /\ expired = <<>>

Init == GateInit /\ StoreIdle /\ EditIdle /\ LoopIdle /\ CheckIdle /\ CostIdle /\ AuthIdle

Next ==
    \/ \E r \in Requests : CheckBudget(r)
    \/ \E r \in Requests : AcquireSlot(r)
    \/ \E r \in Requests : SlotGranted(r)
    \/ \E r \in Requests : QueueTimeout(r)
    \/ \E r \in Requests : PoolStart(r)
    \/ \E r \in Requests : EngineReturn(r)
    \/ \E r \in Requests : Complete(r)
    \/ \E r \in Requests : EngineFail(r)
    \/ \E r \in Requests : ExecTimeout(r)
    \/ \E s \in Sessions : UpdateModel(s)

Spec == Init /\ [][Next]_vars

\* The event loop runs every task that can run, the pool's idle workers take
\* queued work, and both timers fire if what they guard is still pending.
\* Nothing is assumed about the engine call returning.
Fairness ==
    \A r \in Requests :
        /\ WF_vars(CheckBudget(r))
        /\ WF_vars(AcquireSlot(r))
        /\ WF_vars(SlotGranted(r))
        /\ WF_vars(QueueTimeout(r))
        /\ WF_vars(PoolStart(r))
        /\ WF_vars(Complete(r))
        /\ WF_vars(EngineFail(r))
        /\ WF_vars(ExecTimeout(r))

LiveSpec == Init /\ [][Next]_vars /\ Fairness

TypeOK ==
    /\ pc \in [Requests -> {"Requested", "Admitted", "Queued", "Running"} \cup Terminal]
    /\ job \in [Requests -> {"none", "pending", "running", "returned", "raised",
                             "cancelled", "finished"}]
    /\ sem.value \in 0..MAX_CONCURRENT_CALCULATIONS
    /\ sem.woken \subseteq Elems(sem.waiters)
    /\ Elems(poolQueue) \subseteq Requests

(***************************************************************************)
(* check_budget as a function of the estimate and of additional_cost: the  *)
(* session is session 1, its estimate and the additional cost are drawn    *)
(* from values on both sides of each ceiling.  The time estimate is a      *)
(* number of seconds.                                                      *)
(***************************************************************************)
BudgetInputs ==
    {0, 50250, MAX_SESSION_BUDGET - 1, MAX_SESSION_BUDGET, MAX_SESSION_BUDGET + 1}

AdditionalInputs == {0, 1, 2, MAX_SESSION_BUDGET - 50250}

TimeInputs ==
    {0, 10, MAX_CALC_TIME_SECONDS - 1, MAX_CALC_TIME_SECONDS,
     MAX_CALC_TIME_SECONDS + 1, CALCULATION_TIMEOUT_SECONDS}

EstimateInputs == [budget_units : BudgetInputs, calc_time_seconds : TimeInputs]

\* check_budget(session, additional_cost) returns, or raises
\* HTTPException(status_code=400).
AdmissionCheck ==
    /\ verdict = "none"
    /\ verdict' = IF check_budget(1, additional_cost) THEN "returned" ELSE "raised_400"
    /\ UNCHANGED additional_cost
    /\ UNCHANGED besidesCheck

AdmissionInit ==
    /\ pc = [r \in Requests |-> "Requested"]
    /\ sem = NoSemaphore
    /\ job = [r \in Requests |-> "none"]
    /\ poolQueue = <<>>
    /\ hist = [r \in Requests |-> <<>>]
    /\ \E e \in EstimateInputs : model = [s \in Sessions |-> IF s = 1 THEN e ELSE SmallModel]
    /\ additional_cost \in AdditionalInputs
    /\ verdict = "none"
    /\ StoreIdle
    /\ EditIdle
    /\ LoopIdle
    /\ CostIdle
    /\ AuthIdle

AdmissionNext == AdmissionCheck

AdmissionSpec == AdmissionInit /\ [][AdmissionNext]_vars

(***************************************************************************)
(* session_manager.py: Session and SessionManager.                         *)
(* _sessions is a function from the live identifiers to their Session.     *)
(***************************************************************************)
NoSessions == [id \in {} |-> 0]

Put(ss, id, session) ==
    [x \in DOMAIN ss \cup {id} |-> IF x = id THEN session ELSE ss[x]]

Drop(ss, ids) == [x \in DOMAIN ss \ ids |-> ss[x]]

\* Session(id=..., token_hash=...): last_accessed defaults to time.time().
NewSession(t) == [last_accessed |-> t]

\* Variant: touch leaves the timestamp as it is.
touch_keeps_time(session, t) == session

\* Session.touch()
touch(session, t) == [session EXCEPT !.last_accessed = t]

\* Variant: a session is expired as soon as its idle time reaches the timeout.
is_expired_at_timeout(session, t) ==
    t - session.last_accessed >= SESSION_TIMEOUT_SECONDS

\* Session.is_expired()
is_expired(session, t) == t - session.last_accessed > SESSION_TIMEOUT_SECONDS

\* SessionManager.session_count()
session_count(ss) == Cardinality(DOMAIN ss)

\* Variant: the comparison is off by one.
at_capacity_off_by_one(ss) == session_count(ss) > MAX_CONCURRENT_SESSIONS

\* The capacity test of create_session.
at_capacity(ss) == session_count(ss) >= MAX_CONCURRENT_SESSIONS

\* Variant: the session is stored before the capacity test.
create_session_insert_first(ss, id, t) ==
    LET stored == Put(ss, id, NewSession(t))
    IN  IF at_capacity(stored)
        THEN [raised |-> TRUE, sessions |-> stored]
        ELSE [raised |-> FALSE, sessions |-> stored]

\* SessionManager.create_session, the part under the lock: raises RuntimeError
\* at capacity, otherwise stores a new Session under the identifier.
create_session(ss, id, t) ==
    IF at_capacity(ss)
    THEN [raised |-> TRUE, sessions |-> ss]
    ELSE [raised |-> FALSE, sessions |-> Put(ss, id, NewSession(t))]

\* SessionManager.cleanup_expired, first statement under the lock: the list
\* of the identifiers whose session is expired.
expired_sessions(ss, t) == { id \in DOMAIN ss : is_expired(ss[id], t) }

\* SessionManager.cleanup_expired, the rest: every listed identifier is
\* deleted and the length of the list is returned.
cleanup_expired(ss, ids) ==
    [count |-> Cardinality(ids), sessions |-> Drop(ss, ids)]

\* threading.RLock: free, or re-entered by its owner.
NoLock == [owner |-> 0, depth |-> 0]

rlock_available(l, t) == l.owner \in {0, t}

rlock_acquire(l, t) == [owner |-> t, depth |-> l.depth + 1]

\* Leaving every "with self._lock" block the thread is in (return or raise).
rlock_release_all(l) == NoLock

NoOp == [kind |-> "none", id |-> NoId, auto_create |-> FALSE]

NoResult == [tag |-> "none", count |-> 0]

Operations ==
    [kind : {"create"}, id : SessionIds \cup {NoId}, auto_create : {FALSE}]
    \cup [kind : {"get"}, id : SessionIds, auto_create : BOOLEAN]
    \cup [kind : {"delete"}, id : SessionIds, auto_create : {FALSE}]
    \cup [kind : {"sweep"}, id : {NoId}, auto_create : {FALSE}]
    \cup [kind : {"count", "list"}, id : {NoId}, auto_create : {FALSE}]

\* The operation returns or raises: every lock level is released.
Finish(t, tag, count) ==
    /\ tpc' = [tpc EXCEPT ![t] = "idle"]
    /\ op' = [op EXCEPT ![t] = NoOp]
    /\ result' = [tag |-> tag, count |-> count]
    /\ lock' = rlock_release_all(lock)

\* Variant: cleanup_expired lists and deletes without taking the lock.
Enter_sweep_unlocked(t) ==
    /\ tpc[t] = "idle"
    /\ \E o \in Operations :
          /\ op' = [op EXCEPT ![t] = o]
          /\ IF o.kind = "sweep"
             THEN lock' = lock
             ELSE rlock_available(lock, t) /\ lock' = rlock_acquire(lock, t)
    /\ tpc' = [tpc EXCEPT ![t] = "body"]
    /\ UNCHANGED <<sessions, result, refused, now, expired>>
    /\ UNCHANGED besidesStore

\* A request thread (or the sweep loop) calls a store operation and enters
\* its "with self._lock" block; it waits while another thread owns the lock.
Enter(t) ==
    /\ tpc[t] = "idle"
    /\ rlock_available(lock, t)
    /\ lock' = rlock_acquire(lock, t)
    /\ \E o \in Operations : op' = [op EXCEPT ![t] = o]
    /\ tpc' = [tpc EXCEPT ![t] = "body"]
    /\ UNCHANGED <<sessions, result, refused, now, expired>>
    /\ UNCHANGED besidesStore

\* get_session(auto_create=True) missed and calls self.create_session, which
\* enters "with self._lock" again (the lock is re-entrant).
Reenter(t) ==
    /\ tpc[t] = "reenter"
    /\ rlock_available(lock, t)
    /\ lock' = rlock_acquire(lock, t)
    /\ tpc' = [tpc EXCEPT ![t] = "create"]
    /\ UNCHANGED <<sessions, op, result, refused, now, expired>>
    /\ UNCHANGED besidesStore

\* create_session under the lock, called directly or from get_session.
CreateSession(t) ==
    /\ \/ tpc[t] = "body" /\ op[t].kind = "create"
       \/ tpc[t] = "create"
    /\ \E id \in SessionIds :
          /\ IF op[t].id = NoId THEN id \notin DOMAIN sessions ELSE id = op[t].id
          /\ LET out == create_session(sessions, id, now)
             IN  /\ sessions' = out.sessions
                 /\ refused' = (refused \/ out.raised)
                 /\ Finish(t, IF out.raised THEN "capacity" ELSE "created", 0)
    /\ UNCHANGED <<now, expired>>
    /\ UNCHANGED besidesStore

\* Variant: get_session creates on every miss, whatever auto_create says.
GetSession_always_creates(t) ==
    /\ tpc[t] = "body"
    /\ op[t].kind = "get"
    /\ IF op[t].id \in DOMAIN sessions
       THEN /\ sessions' = [sessions EXCEPT ![op[t].id] = touch(@, now)]
            /\ Finish(t, "found", 0)
       ELSE /\ tpc' = [tpc EXCEPT ![t] = "reenter"]
            /\ UNCHANGED <<sessions, lock, op, result>>
    /\ UNCHANGED <<refused, now, expired>>
    /\ UNCHANGED besidesStore

\* Variant: on a miss get_session leaves its with-block before it calls
\* create_session (look up first, create afterwards).
GetSession_miss_unlocks(t) ==
    /\ tpc[t] = "body"
    /\ op[t].kind = "get"
    /\ IF op[t].id \in DOMAIN sessions
       THEN /\ sessions' = [sessions EXCEPT ![op[t].id] = touch(@, now)]
            /\ Finish(t, "found", 0)
       ELSE IF op[t].auto_create
       THEN /\ tpc' = [tpc EXCEPT ![t] = "reenter"]
            /\ lock' = NoLock
            /\ UNCHANGED <<sessions, op, result>>
       ELSE /\ sessions' = sessions
            /\ Finish(t, "notfound", 0)
    /\ UNCHANGED <<refused, now, expired>>
    /\ UNCHANGED besidesStore

\* Variant: get_session asks is_expired first and treats an expired session
\* as a miss, dropping it from the store.
GetSession_drops_expired(t) ==
    /\ tpc[t] = "body"
    /\ op[t].kind = "get"
    /\ LET live == op[t].id \in DOMAIN sessions /\ ~is_expired(sessions[op[t].id], now)
           kept == Drop(sessions, {op[t].id})
       IN  IF live
           THEN /\ sessions' = [sessions EXCEPT ![op[t].id] = touch(@, now)]
                /\ Finish(t, "found", 0)
           ELSE IF op[t].auto_create
           THEN /\ tpc' = [tpc EXCEPT ![t] = "reenter"]
                /\ sessions' = kept
                /\ UNCHANGED <<lock, op, result>>
           ELSE /\ sessions' = kept
                /\ Finish(t, "notfound", 0)
    /\ UNCHANGED <<refused, now, expired>>
    /\ UNCHANGED besidesStore

\* get_session under the lock.
GetSession(t) ==
    /\ tpc[t] = "body"
    /\ op[t].kind = "get"
    /\ IF op[t].id \in DOMAIN sessions
       THEN /\ sessions' = [sessions EXCEPT ![op[t].id] = touch(@, now)]
            /\ Finish(t, "found", 0)
       ELSE IF op[t].auto_create
       THEN /\ tpc' = [tpc EXCEPT ![t] = "reenter"]
            /\ UNCHANGED <<sessions, lock, op, result>>
       ELSE /\ sessions' = sessions
            /\ Finish(t, "notfound", 0)
    /\ UNCHANGED <<refused, now, expired>>
    /\ UNCHANGED besidesStore

\* Variant: delete_session returns True whether or not the key was there.
DeleteSession_reports_true(t) ==
    /\ tpc[t] = "body"
    /\ op[t].kind = "delete"
    /\ sessions' = Drop(sessions, {op[t].id})
    /\ Finish(t, "deleted", 0)
    /\ UNCHANGED <<refused, now, expired>>
    /\ UNCHANGED besidesStore

\* delete_session under the lock.
DeleteSession(t) ==
    /\ tpc[t] = "body"
    /\ op[t].kind = "delete"
    /\ IF op[t].id \in DOMAIN sessions
       THEN /\ sessions' = Drop(sessions, {op[t].id})
            /\ Finish(t, "deleted", 0)
       ELSE /\ sessions' = sessions
            /\ Finish(t, "absent", 0)
    /\ UNCHANGED <<refused, now, expired>>
    /\ UNCHANGED besidesStore

\* cleanup_expired under the lock, first statement: the expired sessions
\* are listed (is_expired reads the clock).
SweepDecide(t) ==
    /\ tpc[t] = "body"
    /\ op[t].kind = "sweep"
    /\ expired' = [expired EXCEPT ![t] = expired_sessions(sessions, now)]
    /\ tpc' = [tpc EXCEPT ![t] = "delete"]
    /\ UNCHANGED <<sessions, lock, op, result, refused, now>>
    /\ UNCHANGED besidesStore

\* cleanup_expired under the lock, the rest of the pass: the listed sessions
\* are deleted and their number is returned.
CleanupExpired(t) ==
    /\ tpc[t] = "delete"
    /\ LET out == cleanup_expired(sessions, expired[t])
       IN  /\ sessions' = out.sessions
           /\ Finish(t, "swept", out.count)
    /\ expired' = [expired EXCEPT ![t] = {}]
    /\ UNCHANGED <<refused, now>>
    /\ UNCHANGED besidesStore

\* SessionManager.list_sessions: the info dict of every session.
list_sessions(ss) ==
    [id \in DOMAIN ss |-> [last_accessed |-> ss[id].last_accessed]]

\* session_count under the lock.
SessionCount(t) ==
    /\ tpc[t] = "body"
    /\ op[t].kind = "count"
    /\ Finish(t, "count", session_count(sessions))
    /\ UNCHANGED <<sessions, refused, now, expired>>
    /\ UNCHANGED besidesStore

\* list_sessions under the lock.
ListSessions(t) ==
    /\ tpc[t] = "body"
    /\ op[t].kind = "list"
    /\ Finish(t, "listed", Cardinality(DOMAIN list_sessions(sessions)))
    /\ UNCHANGED <<sessions, refused, now, expired>>
    /\ UNCHANGED besidesStore

\* time.time() advances.
Tick ==
    /\ now < MaxTime
    /\ now' = now + 1
    /\ UNCHANGED <<sessions, lock, tpc, op, result, refused, expired>>
    /\ UNCHANGED besidesStore

GateIdle ==
    /\ pc = [r \in Requests |-> "Requested"]
    /\ sem = NoSemaphore
    /\ job = [r \in Requests |-> "none"]
    /\ poolQueue = <<>>
    /\ hist = [r \in Requests |-> <<>>]
    /\ model = [s \in Sessions |-> SmallModel]

StoreInit ==
    /\ sessions = NoSessions
    /\ lock = NoLock
    /\ tpc = [t \in Threads |-> "idle"]
    /\ op = [t \in Threads |-> NoOp]
    /\ result = NoResult
    /\ refused = FALSE
    /\ now = 0
    /\ expired = [t \in Threads |-> {}]
    /\ GateIdle
    /\ EditIdle
    /\ LoopIdle
    /\ CheckIdle
    /\ AuthIdle
    /\ CostIdle

StoreNext ==
    \/ \E t \in Threads : Enter(t)
    \/ \E t \in Threads : Reenter(t)
    \/ \E t \in Threads : CreateSession(t)
    \/ \E t \in Threads : GetSession(t)
    \/ \E t \in Threads : DeleteSession(t)
    \/ \E t \in Threads : SweepDecide(t)
    \/ \E t \in Threads : CleanupExpired(t)
    \/ \E t \in Threads : SessionCount(t)
    \/ \E t \in Threads : ListSessions(t)
    \/ Tick

StoreSpec == StoreInit /\ [][StoreNext]_vars

(***************************************************************************)
(* Request threads as the handlers use the store: the session dependency   *)
(* (get_session, get_or_create_session) calls the SessionManager, which    *)
(* takes and releases the lock inside the call; afterwards the handler     *)
(* calls the engine: session.room.estimate_calculation_time() inside       *)
(* estimate_session_cost, or session.room.calculate.  The clock plays no   *)
(* part here and stands still.                                             *)
(***************************************************************************)

\* Variant: the engine is called from inside get_session's with-block.
EngineCallStart_under_lock(t) ==
    /\ tpc[t] = "body"
    /\ op[t].kind = "get"
    /\ tpc' = [tpc EXCEPT ![t] = "engine"]
    /\ UNCHANGED <<sessions, lock, op, result, refused, now, expired>>
    /\ UNCHANGED besidesStore

\* The handler, back from the store, calls the engine.
EngineCallStart(t) ==
    /\ tpc[t] = "idle"
    /\ tpc' = [tpc EXCEPT ![t] = "engine"]
    /\ UNCHANGED <<sessions, lock, op, result, refused, now, expired>>
    /\ UNCHANGED besidesStore

\* The engine call returns or raises.
EngineCallEnd(t) ==
    /\ tpc[t] = "engine"
    /\ tpc' = [tpc EXCEPT ![t] = "idle"]
    /\ UNCHANGED <<sessions, lock, op, result, refused, now, expired>>
    /\ UNCHANGED besidesStore

\* One step of thread t inside a SessionManager method.
StoreStep(t) ==
    \/ Reenter(t)
    \/ CreateSession(t)
    \/ GetSession(t)
    \/ DeleteSession(t)
    \/ SweepDecide(t)
    \/ CleanupExpired(t)
    \/ SessionCount(t)
    \/ ListSessions(t)

HandlerNext ==
    \/ \E t \in Threads : Enter(t)
    \/ \E t \in Threads : Reenter(t)
    \/ \E t \in Threads : CreateSession(t)
    \/ \E t \in Threads : GetSession(t)
    \/ \E t \in Threads : DeleteSession(t)
    \/ \E t \in Threads : SweepDecide(t)
    \/ \E t \in Threads : CleanupExpired(t)
    \/ \E t \in Threads : SessionCount(t)
    \/ \E t \in Threads : ListSessions(t)
    \/ \E t \in Threads : EngineCallStart(t)
    \/ \E t \in Threads : EngineCallEnd(t)

HandlerSpec == StoreInit /\ [][HandlerNext]_vars

\* A thread that is inside a SessionManager method keeps running; nothing is
\* assumed about requests arriving or about engine calls returning.
HandlerFairness == \A t \in Threads : WF_vars(StoreStep(t))

HandlerLiveSpec == StoreInit /\ [][HandlerNext]_vars /\ HandlerFairness

StoreTypeOK ==
    /\ DOMAIN sessions \subseteq SessionIds
    /\ \A id \in DOMAIN sessions :
          sessions[id].last_accessed \in 0..now
    /\ lock.owner \in {0} \cup Threads
    /\ (lock.owner = 0) = (lock.depth = 0)
    /\ \A t \in Threads :
          /\ (tpc[t] \in {"body", "reenter", "create", "delete"}) = (lock.owner = t)
          /\ expired[t] \subseteq DOMAIN sessions
          /\ tpc[t] # "delete" => expired[t] = {}

(***************************************************************************)
(* session_manager.py: start_cleanup, stop_cleanup and _cleanup_loop.      *)
(* The application's lifespan calls start_cleanup at startup and           *)
(* stop_cleanup at shutdown, one call after the other.  A loop thread is   *)
(* "checking" at the test of its while loop and "sleeping" in time.sleep.  *)
(***************************************************************************)
Alive(l) == loops[l] \in {"checking", "sleeping"}

\* start_cleanup: returns at once if a thread is recorded; otherwise sets
\* _running, creates the thread, records and starts it.
StartCleanup ==
    /\ joining = NoThread
    /\ IF cleanup_thread # NoThread
       THEN UNCHANGED <<running, cleanup_thread, loops>>
       ELSE \E l \in LoopThreads :
               /\ loops[l] = "unborn"
               /\ \A k \in LoopThreads : k < l => loops[k] # "unborn"
               /\ running' = TRUE
               /\ cleanup_thread' = l
               /\ loops' = [loops EXCEPT ![l] = "checking"]
    /\ UNCHANGED joining
    /\ UNCHANGED storeVars
    /\ UNCHANGED besidesLoop

\* stop_cleanup, up to the join: clears _running and, if a thread is
\* recorded, waits for it in join(timeout=5.0).
StopCleanup ==
    /\ joining = NoThread
    /\ running' = FALSE
    /\ joining' = cleanup_thread
    /\ UNCHANGED <<cleanup_thread, loops>>
    /\ UNCHANGED storeVars
    /\ UNCHANGED besidesLoop

\* join returns, because the thread has ended or because the five seconds
\* are over while the thread is still in its sleep of cleanup_interval (60 s;
\* a thread at the test of its loop gets there sooner); the record of the
\* thread is cleared.
JoinReturns ==
    /\ joining # NoThread
    /\ loops[joining] \in {"exited", "sleeping"}
    /\ cleanup_thread' = NoThread
    /\ joining' = NoThread
    /\ UNCHANGED <<running, loops>>
    /\ UNCHANGED storeVars
    /\ UNCHANGED besidesLoop

\* _cleanup_loop: while self._running
LoopCheck(l) ==
    /\ loops[l] = "checking"
    /\ loops' = [loops EXCEPT ![l] = IF running THEN "sleeping" ELSE "exited"]
    /\ UNCHANGED <<running, cleanup_thread, joining>>
    /\ UNCHANGED storeVars
    /\ UNCHANGED besidesLoop

\* _cleanup_loop: time.sleep is over and cleanup_expired makes its pass
\* (lock taken and released inside).
LoopSweep(l) ==
    /\ loops[l] = "sleeping"
    /\ rlock_available(lock, NoThread)
    /\ sessions' = cleanup_expired(sessions, expired_sessions(sessions, now)).sessions
    /\ loops' = [loops EXCEPT ![l] = "checking"]
    /\ UNCHANGED <<running, cleanup_thread, joining>>
    /\ UNCHANGED <<lock, tpc, op, result, refused, now, expired>>
    /\ UNCHANGED besidesLoop

LoopInit == LoopIdle /\ GateIdle /\ StoreIdle /\ EditIdle /\ CheckIdle /\ CostIdle /\ AuthIdle

LoopNext ==
    \/ StartCleanup
    \/ StopCleanup
    \/ JoinReturns
    \/ \E l \in LoopThreads : LoopCheck(l)
    \/ \E l \in LoopThreads : LoopSweep(l)

LoopSpec == LoopInit /\ [][LoopNext]_vars

LoopTypeOK ==
    /\ running \in BOOLEAN
    /\ cleanup_thread \in LoopThreads \cup {NoThread}
    /\ joining \in {NoThread, cleanup_thread}
    /\ loops \in [LoopThreads -> {"unborn", "checking", "sleeping", "exited"}]
    /\ cleanup_thread # NoThread => loops[cleanup_thread] # "unborn"

(***************************************************************************)
(* session_routers.py: init_session and load_session replace the model of  *)
(* a session statement by statement, on a worker thread of the server and  *)
(* without any lock; estimate_session_cost (called by the estimate         *)
(* endpoint, by check_budget and by log_calculation_start) reads the same  *)
(* fields from another thread.                                             *)
(***************************************************************************)

\* session.project = project (init_session) / Project.load(request)
\* (load_session): from here on session.room is the new room.
SetProject ==
    /\ ipc = "idle"
    /\ room' = NewRoom
    /\ ipc' = "project"
    /\ UNCHANGED <<lamp_id_map, zone_id_map, epc, seen>>
    /\ UNCHANGED besidesEdit

\* session.lamp_id_map = {}
ClearLampMap ==
    /\ ipc = "project"
    /\ lamp_id_map' = EmptyMap
    /\ ipc' = "lamps_cleared"
    /\ UNCHANGED <<room, zone_id_map, epc, seen>>
    /\ UNCHANGED besidesEdit

\* session.zone_id_map = {}
ClearZoneMap ==
    /\ ipc = "lamps_cleared"
    /\ zone_id_map' = EmptyMap
    /\ ipc' = "filling"
    /\ UNCHANGED <<room, lamp_id_map, epc, seen>>
    /\ UNCHANGED besidesEdit

\* One round of the lamp loop: session.lamp_id_map[lamp_id] = lamp
AddLamp ==
    /\ ipc = "filling"
    /\ lamp_id_map.entries < NumLamps
    /\ lamp_id_map' = [lamp_id_map EXCEPT !.entries = @ + 1]
    /\ UNCHANGED <<room, zone_id_map, ipc, epc, seen>>
    /\ UNCHANGED besidesEdit

\* One round of the zone loop, which follows the lamp loop:
\* session.zone_id_map[zone_id] = zone
AddZone ==
    /\ ipc = "filling"
    /\ lamp_id_map.entries = NumLamps
    /\ zone_id_map.entries < NumZones
    /\ zone_id_map' = [zone_id_map EXCEPT !.entries = @ + 1]
    /\ UNCHANGED <<room, lamp_id_map, ipc, epc, seen>>
    /\ UNCHANGED besidesEdit

\* The handler returns its response.
InitReturn ==
    /\ ipc = "filling"
    /\ lamp_id_map.entries = NumLamps
    /\ zone_id_map.entries = NumZones
    /\ ipc' = "done"
    /\ UNCHANGED <<room, lamp_id_map, zone_id_map, epc, seen>>
    /\ UNCHANGED besidesEdit

\* estimate_session_cost, first loop: for zone_id, zone in session.zone_id_map.items()
ReadZones ==
    /\ epc = "idle"
    /\ seen' = [NothingSeen EXCEPT !.zones = zone_id_map]
    /\ epc' = "zones_read"
    /\ UNCHANGED <<room, lamp_id_map, zone_id_map, ipc>>
    /\ UNCHANGED besidesEdit

\* estimate_session_cost, second loop: for lamp in session.lamp_id_map.values()
ReadLamps ==
    /\ epc = "zones_read"
    /\ seen' = [seen EXCEPT !.lamps = lamp_id_map]
    /\ epc' = "lamps_read"
    /\ UNCHANGED <<room, lamp_id_map, zone_id_map, ipc>>
    /\ UNCHANGED besidesEdit

\* estimate_session_cost, the rest: session.room.ref_manager and
\* session.room.estimate_calculation_time(); the estimate is returned.
ReadRoom ==
    /\ epc = "lamps_read"
    /\ seen' = [seen EXCEPT !.room = room]
    /\ epc' = "done"
    /\ UNCHANGED <<room, lamp_id_map, zone_id_map, ipc>>
    /\ UNCHANGED besidesEdit

\* The next request that estimates the session's cost arrives.
NextEstimate ==
    /\ epc = "done"
    /\ epc' = "idle"
    /\ seen' = NothingSeen
    /\ UNCHANGED <<room, lamp_id_map, zone_id_map, ipc>>
    /\ UNCHANGED besidesEdit

EditInit == EditIdle /\ GateIdle /\ StoreIdle /\ LoopIdle /\ CheckIdle /\ CostIdle /\ AuthIdle

EditNext ==
    \/ SetProject
    \/ ClearLampMap
    \/ ClearZoneMap
    \/ AddLamp
    \/ AddZone
    \/ InitReturn
    \/ ReadZones
    \/ ReadLamps
    \/ ReadRoom
    \/ NextEstimate

EditSpec == EditInit /\ [][EditNext]_vars

EditTypeOK ==
    /\ room \in {OldRoom, NewRoom}
    /\ lamp_id_map.entries \in 0..NumLamps
    /\ zone_id_map.entries \in 0..NumZones
    /\ ipc \in {"idle", "project", "lamps_cleared", "filling", "done"}
    /\ epc \in {"idle", "zones_read", "lamps_read", "done"}

(***************************************************************************)
(* Properties of the calculation gate.                                     *)
(***************************************************************************)
acquires(r) == Count(hist[r], "acquire")

releases(r) == Count(hist[r], "release")

\* A permit of the semaphore is out for r: acquire() returned and release()
\* has not been called yet, or the permit has been handed to r's pending
\* acquire() and r has not resumed.
HoldsSlot(r) == acquires(r) > releases(r) \/ r \in sem.woken

SlotHolders == { r \in Requests : HoldsSlot(r) }

FreeSlots == IF sem.created THEN sem.value ELSE MAX_CONCURRENT_CALCULATIONS

InState(st) == { r \in Requests : pc[r] = st }

\* C1: in every reachable state the number of requests that hold an execution
\* slot (acquired and not yet released) is at most MAX_CONCURRENT_CALCULATIONS.
C1_SlotCeiling == Cardinality(SlotHolders) <= MAX_CONCURRENT_CALCULATIONS

\* The ceiling is reached and a further admitted request is held back.
C1_Witness ==
    /\ Cardinality({ r \in Requests : acquires(r) > releases(r) })
           = MAX_CONCURRENT_CALCULATIONS
    /\ InState("Queued") # {}

\* C2: a request that acquired a slot releases it exactly once on every exit
\* from Running, a request that never acquired one never releases; whenever no
\* request holds a slot, all MAX_CONCURRENT_CALCULATIONS slots are free.
C2_ReleaseExactlyOnce ==
    /\ \A r \in Requests :
          /\ acquires(r) <= 1
          /\ releases(r) <= acquires(r)
          /\ pc[r] = "Running" => acquires(r) = 1 /\ releases(r) = 0
          /\ pc[r] \in {"Completed", "Failed", "TimedOutRunning"}
                => acquires(r) = 1 /\ releases(r) = 1
          /\ pc[r] \in {"Requested", "Admitted", "Queued", "Rejected", "TimedOutQueued"}
                => acquires(r) = 0 /\ releases(r) = 0
    /\ SlotHolders = {} => FreeSlots = MAX_CONCURRENT_CALCULATIONS
    /\ FreeSlots + Cardinality(SlotHolders) = MAX_CONCURRENT_CALCULATIONS

\* Every exit from Running has been taken and all slots are free again.
C2_Witness ==
    /\ InState("Completed") # {}
    /\ InState("Failed") # {}
    /\ InState("TimedOutRunning") # {}
    /\ sem.created
    /\ sem.value = MAX_CONCURRENT_CALCULATIONS

FirstPending(s) == SelectSeq(s.waiters, LAMBDA w : w \notin s.woken)

\* C3: a Running request whose engine call does not return becomes
\* TimedOutRunning; in that step its slot is released although the engine
\* call is still executing and the first request waiting in Queued is handed
\* the slot; a request handed a slot becomes Running unless its own
\* queue-wait timeout fires first.
C3_TimeoutStep ==
    \A r \in Requests :
        (pc[r] = "Running" /\ pc'[r] = "TimedOutRunning") =>
            /\ releases(r)' = releases(r) + 1
            /\ job[r] = "running" => job'[r] = "running"
            /\ FirstPending(sem) # <<>> =>
                  /\ Head(FirstPending(sem)) \in sem'.woken
                  /\ pc'[Head(FirstPending(sem))] = "Queued"
            /\ FirstPending(sem) = <<>> => sem'.value = sem.value + 1

C3_GrantedStep ==
    \A q \in Requests :
        (pc[q] = "Queued" /\ q \in sem.woken /\ pc'[q] # "Queued") =>
            pc'[q] \in {"Running", "TimedOutQueued"}

C3_TimeoutHandsSlotOn ==
    /\ [][C3_TimeoutStep /\ C3_GrantedStep]_vars
    /\ \A q \in Requests :
          /\ (pc[q] = "Running")
                ~> (pc[q] = "TimedOutRunning" \/ job[q] \in {"returned", "raised", "finished"})
          /\ (pc[q] = "Queued" /\ q \in sem.woken)
                ~> (pc[q] \in {"Running", "TimedOutQueued"})

\* A request timed out while its engine call is still executing, and the
\* request that was waiting has been handed the slot it gave up (all others
\* still hold theirs).
C3_Witness ==
    \E r, q \in Requests :
        /\ pc[r] = "TimedOutRunning"
        /\ job[r] = "running"
        /\ pc[q] = "Queued"
        /\ q \in sem.woken
        /\ \A o \in Requests \ {r, q} : pc[o] = "Running"

Asked == { r \in Requests : Count(hist[r], "ask") > 0 }

NoneFinished == \A r \in Requests : pc[r] \notin (Terminal \ {"Rejected"})

\* C4: with all slots free, when MAX_CONCURRENT_CALCULATIONS + 1 admitted
\* requests have asked for a slot and none has finished, exactly
\* MAX_CONCURRENT_CALCULATIONS of them are Running and exactly one is Queued;
\* a Queued request leaves Queued only to Running, on a released slot, or to
\* TimedOutQueued.
C4_State ==
    (NoneFinished /\ Cardinality(Asked) = MAX_CONCURRENT_CALCULATIONS + 1) =>
        /\ Cardinality(Asked \cap InState("Running")) = MAX_CONCURRENT_CALCULATIONS
        /\ Cardinality(Asked \cap InState("Queued")) = 1

C4_QueuedStep ==
    \A r \in Requests :
        (pc[r] = "Queued" /\ pc'[r] # "Queued") =>
            \/ pc'[r] = "Running" /\ r \in sem.woken
            \/ pc'[r] = "TimedOutQueued"

C4_OneQueuedBeyondCeiling == []C4_State /\ [][C4_QueuedStep]_vars

C4_Witness ==
    /\ NoneFinished
    /\ Cardinality(Asked) = MAX_CONCURRENT_CALCULATIONS + 1
    /\ Cardinality(InState("Queued")) = 1

\* C5: a request that ends TimedOutQueued never held a slot and nothing was
\* dispatched for it; the step that times it out leaves the number of slots
\* that are free or handed to a waiter, the other waiters, the pool and the
\* session models as they were, and no step of a request changes a model.
C5_State ==
    \A r \in Requests :
        pc[r] = "TimedOutQueued" =>
            /\ acquires(r) = 0
            /\ releases(r) = 0
            /\ Count(hist[r], "dispatch") = 0
            /\ job[r] = "none"
            /\ r \notin Elems(poolQueue)
            /\ r \notin Elems(sem.waiters)
            /\ r \notin sem.woken

C5_Step ==
    \A r \in Requests :
        /\ (pc[r] = "Queued" /\ pc'[r] = "TimedOutQueued") =>
              /\ sem'.value + Cardinality(sem'.woken)
                    = sem.value + Cardinality(sem.woken)
              /\ sem'.waiters = Remove(sem.waiters, r)
              /\ r \notin sem.woken => sem' = [sem EXCEPT !.waiters = Remove(@, r)]
              /\ job' = job
              /\ poolQueue' = poolQueue
              /\ model' = model
        /\ pc'[r] # pc[r] => model' = model

C5_QueueTimeoutChangesNothing == []C5_State /\ [][C5_Step]_vars

\* A request timed out in the queue while every slot was held by others.
C5_Witness ==
    /\ InState("TimedOutQueued") # {}
    /\ Cardinality(InState("Running")) = MAX_CONCURRENT_CALCULATIONS
    /\ sem.value = 0

IsPrefix(p, s) == Len(p) <= Len(s) /\ SubSeq(s, 1, Len(p)) = p

\* C6: admission precedes slot acquisition: a request whose admission check
\* fails ends Rejected without asking for a slot or dispatching the engine,
\* a request that asks for a slot has passed the check before, and a request
\* holds a slot or runs only after it was admitted and then asked for a slot.
C6_State ==
    \A r \in Requests :
        /\ pc[r] = "Rejected" => hist[r] = <<>> /\ job[r] = "none"
        /\ r \in Asked => IsPrefix(<<"admit", "ask">>, hist[r])
        /\ (acquires(r) > 0 \/ job[r] # "none" \/ pc[r] = "Running")
              => IsPrefix(<<"admit", "ask">>, hist[r])
        /\ Count(hist[r], "dispatch") > 0
              => \E i, j \in 1..Len(hist[r]) :
                    i < j /\ hist[r][i] = "acquire" /\ hist[r][j] = "dispatch"

C6_Step ==
    \A r \in Requests :
        /\ pc[r] = "Requested" /\ pc'[r] # "Requested" =>
              /\ pc'[r] = "Rejected" <=> ~check_budget(owner(r), 0)
              /\ pc'[r] = "Admitted" <=> check_budget(owner(r), 0)
        /\ pc'[r] # pc[r] =>
              <<pc[r], pc'[r]>> \in
                  { <<"Requested", "Admitted">>, <<"Requested", "Rejected">>,
                    <<"Admitted", "Queued">>, <<"Admitted", "Running">>,
                    <<"Queued", "Running">>, <<"Queued", "TimedOutQueued">>,
                    <<"Running", "Completed">>, <<"Running", "Failed">>,
                    <<"Running", "TimedOutRunning">> }

C6_AdmissionFirst == []C6_State /\ [][C6_Step]_vars

\* One request was rejected and never asked for a slot, another was admitted,
\* asked for a slot and is running.
C6_Witness ==
    \E r, q \in Requests :
        /\ pc[r] = "Rejected"
        /\ r \notin Asked
        /\ pc[q] = "Running"
        /\ q \in Asked

\* C7: every calculate request eventually reaches a terminal outcome, even
\* when engine calls never return, provided the two timers eventually fire.
C7_EveryRequestTerminates == \A r \in Requests : <>(pc[r] \in Terminal)

\* Every request has ended although some engine call is still executing.
C7_Witness ==
    /\ \A r \in Requests : pc[r] \in Terminal
    /\ BusyWorkers # {}
    /\ InState("TimedOutQueued") # {}

CreateReturns(t) ==
    /\ tpc[t] = "create" \/ (tpc[t] = "body" /\ op[t].kind = "create")
    /\ tpc'[t] = "idle"

\* C9: the number of live sessions never exceeds MAX_CONCURRENT_SESSIONS, and
\* create (directly or through get with auto_create on a miss) fails with the
\* capacity error exactly when the number of live sessions equals the ceiling
\* when it is called; the store does not change between the miss of such a
\* get and the create it calls.
C9_State == session_count(sessions) <= MAX_CONCURRENT_SESSIONS

C9_Step ==
    \A t \in Threads :
        /\ CreateReturns(t) =>
              /\ result'.tag \in {"capacity", "created"}
              /\ result'.tag = "capacity"
                    <=> session_count(sessions) = MAX_CONCURRENT_SESSIONS
        /\ tpc[t] = "reenter" => sessions' = sessions
        /\ (tpc[t] = "body" /\ tpc'[t] = "reenter") =>
              op[t].kind = "get" /\ op[t].auto_create /\ op[t].id \notin DOMAIN sessions

C9_SessionCeiling == []C9_State /\ [][C9_Step]_vars

\* The store is full and a create has just been refused.
C9_Witness ==
    /\ session_count(sessions) = MAX_CONCURRENT_SESSIONS
    /\ result.tag = "capacity"

\* C10: a create that fails with the capacity error leaves the sessions as
\* they were and the lock free; a get of a live session finds it; a create
\* called while the number of live sessions is below the ceiling succeeds.
C10_Step ==
    \A t \in Threads :
        /\ (CreateReturns(t) /\ result'.tag = "capacity") =>
              /\ sessions' = sessions
              /\ lock' = NoLock
        /\ (tpc[t] = "body" /\ op[t].kind = "get" /\ op[t].id \in DOMAIN sessions
               /\ tpc'[t] # "body") =>
              /\ result'.tag = "found"
              /\ DOMAIN sessions' = DOMAIN sessions
        /\ (CreateReturns(t) /\ session_count(sessions) < MAX_CONCURRENT_SESSIONS) =>
              /\ result'.tag = "created"
              /\ op[t].id # NoId => op[t].id \in DOMAIN sessions'
              /\ session_count(sessions') >= session_count(sessions)

C10_State == \A t \in Threads : tpc[t] = "idle" => lock.owner # t

C10_CapacityErrorIsLocal == []C10_State /\ [][C10_Step]_vars

\* A create was refused, and after sessions were removed a create succeeded.
C10_Witness ==
    /\ refused
    /\ result.tag = "created"

IdleTime(session) == now - session.last_accessed

\* Thread t is inside cleanup_expired and this step lists the expired sessions.
SweepLists(t) == tpc[t] = "body" /\ op[t].kind = "sweep" /\ tpc'[t] # "body"

\* Thread t is inside cleanup_expired and this step deletes and returns.
SweepDeletes(t) == tpc[t] = "delete" /\ tpc'[t] # "delete"

\* C11: a sweep pass evicts exactly the sessions whose idle time is strictly
\* greater than SESSION_TIMEOUT_SECONDS when the pass examines them: those
\* sessions and no others are listed, nothing changes the store between the
\* listing and the deletion, afterwards none of the listed sessions is in the
\* store, every other session is still there and unmodified, and the count
\* returned is the number of sessions removed.
C11_Step ==
    \A t \in Threads :
        /\ SweepLists(t) =>
              /\ tpc'[t] = "delete"
              /\ expired'[t] = { id \in DOMAIN sessions :
                                    IdleTime(sessions[id]) > SESSION_TIMEOUT_SECONDS }
              /\ sessions' = sessions
        /\ (tpc[t] = "delete" /\ tpc'[t] = "delete") =>
              /\ sessions' = sessions
              /\ expired'[t] = expired[t]
        /\ SweepDeletes(t) =>
              /\ tpc'[t] = "idle"
              /\ expired[t] \subseteq DOMAIN sessions
              /\ DOMAIN sessions' = DOMAIN sessions \ expired[t]
              /\ \A id \in DOMAIN sessions' : sessions'[id] = sessions[id]
              /\ result' = [tag |-> "swept",
                            count |-> Cardinality(DOMAIN sessions \ DOMAIN sessions')]

C11_SweepEvictsExactlyExpired == [][C11_Step]_vars

\* A pass has just removed a session while another one, idle for exactly the
\* timeout, stayed.
C11_Witness ==
    /\ result.tag = "swept"
    /\ result.count >= 1
    /\ \E id \in DOMAIN sessions : IdleTime(sessions[id]) = SESSION_TIMEOUT_SECONDS

\* C12: idle eviction follows touches under every interleaving of get and
\* sweep: a successful get sets the session's last access to the current
\* time, a sweep lists a session only while its idle time exceeds the
\* timeout and every such session is listed and then deleted, and a sweep
\* never deletes a session whose idle time, when it is deleted, is within the
\* timeout (no get runs between the listing and the deletion, because both
\* and get run under the same lock).
C12_State ==
    \A t \in Threads :
        /\ tpc[t] \in {"body", "reenter", "create", "delete"} => lock.owner = t
        /\ tpc[t] = "delete" =>
              \A id \in expired[t] :
                  /\ id \in DOMAIN sessions
                  /\ IdleTime(sessions[id]) > SESSION_TIMEOUT_SECONDS

C12_Step ==
    \A t \in Threads :
        /\ (tpc[t] = "body" /\ op[t].kind = "get" /\ op[t].id \in DOMAIN sessions
               /\ tpc'[t] # "body") =>
              /\ op[t].id \in DOMAIN sessions'
              /\ sessions'[op[t].id].last_accessed = now
        /\ SweepLists(t) =>
              \A id \in DOMAIN sessions :
                  IdleTime(sessions[id]) > SESSION_TIMEOUT_SECONDS => id \in expired'[t]
        /\ SweepDeletes(t) =>
              /\ \A id \in DOMAIN sessions \ DOMAIN sessions' :
                    IdleTime(sessions[id]) > SESSION_TIMEOUT_SECONDS
              /\ \A id \in DOMAIN sessions :
                    IdleTime(sessions[id]) <= SESSION_TIMEOUT_SECONDS
                        => id \in DOMAIN sessions' /\ sessions'[id] = sessions[id]
              /\ expired[t] \cap DOMAIN sessions' = {}

C12_EvictionFollowsTouches == []C12_State /\ [][C12_Step]_vars

\* A get has just touched a session; the pass that started afterwards has
\* listed an idle session and spares the touched one.
C12_Witness ==
    \E t \in Threads :
        /\ tpc[t] = "delete"
        /\ expired[t] # {}
        /\ result.tag = "found"
        /\ \E id \in DOMAIN sessions \ expired[t] : sessions[id].last_accessed = now

\* Thread t is in the body of the operation of the given kind and this step
\* ends the body.
BodyStep(t, kind) == tpc[t] = "body" /\ op[t].kind = kind /\ tpc'[t] # "body"

\* Every session live before the step, except those under the identifiers
\* in ids, is still live and unmodified after it.
OthersUntouched(ids) ==
    \A id \in DOMAIN sessions \ ids :
        id \in DOMAIN sessions' /\ sessions'[id] = sessions[id]

\* C13: a successful get sets the found session's last access to the current
\* time and changes nothing else; create of another identifier, delete of
\* another identifier, sweep, session_count and list_sessions leave the last
\* access of every session that stays in the store unchanged, and so does
\* the passing of time.
C13_Step ==
    /\ \A t \in Threads :
          /\ (BodyStep(t, "get") /\ op[t].id \in DOMAIN sessions) =>
                /\ sessions' = [sessions EXCEPT ![op[t].id].last_accessed = now]
                /\ result'.tag = "found"
          /\ (BodyStep(t, "get") /\ op[t].id \notin DOMAIN sessions) =>
                sessions' = sessions
          /\ CreateReturns(t) =>
                IF op[t].id = NoId THEN OthersUntouched({})
                ELSE OthersUntouched({op[t].id})
          /\ BodyStep(t, "delete") => OthersUntouched({op[t].id})
          /\ BodyStep(t, "sweep") => sessions' = sessions
          /\ SweepDeletes(t) =>
                \A id \in DOMAIN sessions' : sessions'[id] = sessions[id]
          /\ BodyStep(t, "count") => sessions' = sessions
          /\ BodyStep(t, "list") => sessions' = sessions
    /\ now' # now => sessions' = sessions
    /\ \A id \in DOMAIN sessions \cap DOMAIN sessions' :
          sessions'[id].last_accessed # sessions[id].last_accessed =>
              \E t \in Threads :
                  /\ op[t].id = id
                  /\ BodyStep(t, "get") \/ CreateReturns(t)

C13_OnlyGetResetsIdleTime == [][C13_Step]_vars

\* A get has just returned a session whose last access is now the current
\* time, while another session keeps an older one.
C13_Witness ==
    /\ result.tag = "found"
    /\ now > 0
    /\ \E id, other \in DOMAIN sessions :
          /\ sessions[id].last_accessed = now
          /\ sessions[other].last_accessed < now

\* Thread t is inside get_session(auto_create=True), has missed, and is in or
\* about to enter the create_session it calls.
CreatingForGet(t) == tpc[t] \in {"reenter", "create"} /\ op[t].kind = "get"

\* A get creates a Session only under an identifier that is absent at that
\* moment, so it never replaces the Session an earlier caller received.
C14_State ==
    \A t \in Threads :
        CreatingForGet(t) => op[t].auto_create /\ op[t].id \notin DOMAIN sessions

\* A get of a live identifier returns the stored Session, touched, and
\* creates nothing; nothing changes the store between the miss of a get and
\* the create it calls.
C14_FoundStep ==
    \A t \in Threads :
        /\ (BodyStep(t, "get") /\ op[t].id \in DOMAIN sessions) =>
              /\ result'.tag = "found"
              /\ tpc'[t] = "idle"
              /\ DOMAIN sessions' = DOMAIN sessions
              /\ OthersUntouched({op[t].id})
        /\ (BodyStep(t, "get") /\ op[t].id \notin DOMAIN sessions /\ op[t].auto_create) =>
              tpc'[t] = "reenter" /\ sessions' = sessions
        /\ CreatingForGet(t) /\ tpc'[t] # "idle" => sessions' = sessions

\* C14 as stated: every get(id, auto_create=True) that misses creates the
\* one Session of the identifier, and every get of a live identifier
\* returns the stored one.
C14_CreateStep_AsStated ==
    \A t \in Threads :
        (CreatingForGet(t) /\ tpc'[t] = "idle") =>
            /\ result'.tag = "created"
            /\ DOMAIN sessions' = DOMAIN sessions \cup {op[t].id}
            /\ sessions'[op[t].id] = NewSession(now)

C14_OneSessionPerIdentifier_AsStated ==
    []C14_State /\ [][C14_FoundStep /\ C14_CreateStep_AsStated]_vars

\* C14, amended: as stated while the store is below MAX_CONCURRENT_SESSIONS;
\* when it is at the ceiling the get that misses creates nothing and raises
\* the capacity error, and so does every other caller until a session leaves.
C14_CreateStep ==
    \A t \in Threads :
        (CreatingForGet(t) /\ tpc'[t] = "idle") =>
            IF session_count(sessions) < MAX_CONCURRENT_SESSIONS
            THEN /\ result'.tag = "created"
                 /\ DOMAIN sessions' = DOMAIN sessions \cup {op[t].id}
                 /\ sessions'[op[t].id] = NewSession(now)
                 /\ OthersUntouched({})
            ELSE /\ result'.tag = "capacity"
                 /\ sessions' = sessions

C14_OneSessionPerIdentifier ==
    []C14_State /\ [][C14_FoundStep /\ C14_CreateStep]_vars

\* One caller of get(id, auto_create=True) has created the session, and a
\* second caller for the same identifier is about to find it.
C14_Witness ==
    \E t \in Threads :
        /\ tpc[t] = "body"
        /\ op[t].kind = "get"
        /\ op[t].auto_create
        /\ result.tag = "created"
        /\ DOMAIN sessions = {op[t].id}

\* C18: a lookup miss is a result, not an error: get(id, auto_create=False)
\* for an absent identifier returns not-found, creates nothing and leaves
\* the store and the lock as after any return; get(id, auto_create=True) on
\* a miss does what create(id) does in the same store: the identifier
\* becomes live with a fresh session, or, at the ceiling, the capacity error
\* is raised and the store is unchanged.
C18_Step ==
    \A t \in Threads :
        /\ (BodyStep(t, "get") /\ op[t].id \notin DOMAIN sessions /\ ~op[t].auto_create) =>
              /\ result' = [tag |-> "notfound", count |-> 0]
              /\ sessions' = sessions
              /\ refused' = refused
              /\ tpc'[t] = "idle"
              /\ lock' = NoLock
        /\ (BodyStep(t, "get") /\ op[t].id \notin DOMAIN sessions /\ op[t].auto_create) =>
              /\ tpc'[t] = "reenter"
              /\ result' = result
              /\ sessions' = sessions
        /\ (CreatingForGet(t) /\ tpc'[t] = "idle") =>
              /\ lock' = NoLock
              /\ \/ /\ result'.tag = "created"
                    /\ session_count(sessions) < MAX_CONCURRENT_SESSIONS
                    /\ DOMAIN sessions' = DOMAIN sessions \cup {op[t].id}
                    /\ sessions'[op[t].id].last_accessed = now
                    /\ OthersUntouched({})
                 \/ /\ result'.tag = "capacity"
                    /\ session_count(sessions) = MAX_CONCURRENT_SESSIONS
                    /\ sessions' = sessions
                    /\ refused'

C18_MissIsAResult == [][C18_Step]_vars

\* A get without auto_create has just missed in a full store, after a get
\* or create was refused for capacity.
C18_Witness ==
    /\ result.tag = "notfound"
    /\ refused
    /\ session_count(sessions) = MAX_CONCURRENT_SESSIONS

\* C19: delete(id) returns true exactly when the identifier was live just
\* before; afterwards the identifier is absent and every other session is
\* unchanged; a delete of an absent identifier (such as an immediately
\* repeated delete) returns false and changes nothing.
C19_Step ==
    \A t \in Threads :
        BodyStep(t, "delete") =>
            /\ tpc'[t] = "idle"
            /\ result'.tag \in {"deleted", "absent"}
            /\ result'.tag = "deleted" <=> op[t].id \in DOMAIN sessions
            /\ DOMAIN sessions' = DOMAIN sessions \ {op[t].id}
            /\ OthersUntouched({op[t].id})
            /\ op[t].id \notin DOMAIN sessions => sessions' = sessions

C19_DeleteReportsExistence == [][C19_Step]_vars

\* A delete has just removed a session, another session is still there, and
\* the next delete is for an identifier that is absent.
C19_Witness ==
    \E t \in Threads :
        /\ result.tag = "deleted"
        /\ tpc[t] = "body"
        /\ op[t].kind = "delete"
        /\ op[t].id \notin DOMAIN sessions
        /\ DOMAIN sessions # {}

(***************************************************************************)
(* Properties of the session's model state.                                *)
(***************************************************************************)
CompleteOld == [zones |-> OldZones, lamps |-> OldLamps, room |-> OldRoom]

CompleteNew ==
    [zones |-> [rev |-> NewRoom, entries |-> NumZones],
     lamps |-> [rev |-> NewRoom, entries |-> NumLamps],
     room  |-> NewRoom]

\* C15: an estimate computed while init_session or load_session replaces the
\* session's model has read either the complete old model (old room with
\* the old lamp and zone maps) or the complete new one.
C15_NoTornModel == epc = "done" => seen \in {CompleteOld, CompleteNew}

(***************************************************************************)
(* Properties of the handlers' use of the store.                           *)
(***************************************************************************)
InStore(t) == tpc[t] \in {"body", "reenter", "create", "delete"}

\* C16: the store's lock is never held while an engine call is in progress:
\* a thread executing an engine call does not own the lock, the lock is
\* free or owned by a thread inside a store operation, a thread can enter a
\* store operation whenever the lock is free, whatever computations are
\* running, and every store operation that has been entered completes
\* (also get with auto_create, which re-enters the lock through create).
C16_State ==
    /\ \A t \in Threads : tpc[t] = "engine" => lock.owner # t
    /\ lock.owner # 0 => InStore(lock.owner)
    /\ \A t \in Threads : (tpc[t] = "idle" /\ lock.owner = 0) => ENABLED Enter(t)
    /\ \A t \in Threads : InStore(t) => ENABLED StoreStep(t)

C16_LockNeverHeldAcrossEngine ==
    /\ []C16_State
    /\ \A t \in Threads : InStore(t) ~> (tpc[t] = "idle")

\* While one thread executes an engine call, another has missed in
\* get_session(auto_create=True) and re-entered the lock in create_session.
C16_Witness ==
    \E t, u \in Threads :
        /\ tpc[t] = "engine"
        /\ tpc[u] = "create"
        /\ lock = [owner |-> u, depth |-> 2]

(***************************************************************************)
(* Properties of the sweep loop.                                           *)
(***************************************************************************)
\* C17: across any sequence of start_cleanup and stop_cleanup calls at most
\* one sweep loop is alive at any time.
C17_AtMostOneSweepLoop == Cardinality({ l \in LoopThreads : Alive(l) }) <= 1

(***************************************************************************)
(* Properties of the admission check.                                      *)
(***************************************************************************)
\* C20: check_budget(session, additional_cost) returns if and only if
\* budget_units + additional_cost is at most 50,000,000 and the estimated
\* calculation time is at most 240 s (80% of 300 s); exceeding either ceiling
\* alone raises the 400 rejection, and values equal to a ceiling pass.
C20_CheckPassesUpToCeilings ==
    /\ MAX_CALC_TIME_SECONDS = 240
    /\ verdict # "none" =>
          /\ verdict \in {"returned", "raised_400"}
          /\ verdict = "returned" <=>
                /\ model[1].budget_units + additional_cost <= 50000000
                /\ model[1].calc_time_seconds <= 240

\* A check has passed with both the total and the time exactly at their
\* ceilings, the total reaching the ceiling through the additional cost.
C20_Witness ==
    /\ verdict = "returned"
    /\ additional_cost > 0
    /\ model[1].budget_units + additional_cost = MAX_SESSION_BUDGET
    /\ model[1].calc_time_seconds = MAX_CALC_TIME_SECONDS

(***************************************************************************)
(* resource_limits.py: the cost estimate of one session in detail.         *)
(*                                                                         *)
(* A session s is a record: zone_id_map and lamp_id_map are the dicts in   *)
(* insertion order (sequences of entries), ref_manager is                  *)
(* room.ref_manager, calc_time is what room.estimate_calculation_time()    *)
(* answers for the current model.  A zone is [id, enabled, num_points], a  *)
(* lamp is [id, enabled, ies] with ies FALSE for "ies is None", and        *)
(* max_num_passes = 0 stands for a falsy max_num_passes.                   *)
(***************************************************************************)
COST_PER_GRID_POINT == 10

COST_PER_LAMP == 50000

COST_PER_REFLECTANCE_POINT == 1

\* ref_manager.max_num_passes or 5
DefaultPasses == 5

RECURSIVE prod(_)
prod(num_points) ==
    IF num_points = <<>> THEN 1 ELSE Head(num_points) * prod(Tail(num_points))

RECURSIVE SumSeq(_)
SumSeq(s) == IF s = <<>> THEN 0 ELSE Head(s) + SumSeq(Tail(s))

\* The entry of one zone in the breakdown.
zone_info(zone) ==
    [id |-> zone.id, enabled |-> zone.enabled,
     grid_points |-> prod(zone.num_points),
     cost |-> IF zone.enabled THEN prod(zone.num_points) * COST_PER_GRID_POINT ELSE 0]

\* list.sort(key=cost, reverse=True): descending, entries of equal cost keep
\* their order.
RECURSIVE InsertByCost(_, _)
InsertByCost(z, sorted) ==
    IF sorted = <<>> THEN <<z>>
    ELSE IF Head(sorted).cost >= z.cost
         THEN <<Head(sorted)>> \o InsertByCost(z, Tail(sorted))
         ELSE <<z>> \o sorted

RECURSIVE sort_by_cost(_)
sort_by_cost(details) ==
    IF details = <<>> THEN <<>>
    ELSE InsertByCost(details[Len(details)],
                      sort_by_cost(SubSeq(details, 1, Len(details) - 1)))

zone_details(s) ==
    sort_by_cost([i \in 1..Len(s.zone_id_map) |-> zone_info(s.zone_id_map[i])])

\* Variant: every zone counts, enabled or not.
total_grid_points_all_zones(s) ==
    SumSeq([i \in 1..Len(s.zone_id_map) |-> prod(s.zone_id_map[i].num_points)])

total_grid_points(s) ==
    SumSeq([i \in 1..Len(s.zone_id_map) |->
              IF s.zone_id_map[i].enabled THEN prod(s.zone_id_map[i].num_points) ELSE 0])

\* Variant: every enabled lamp counts, with photometric data or without.
lamp_count_enabled_only(s) ==
    Cardinality({ i \in 1..Len(s.lamp_id_map) : s.lamp_id_map[i].enabled })

lamp_count(s) ==
    Cardinality({ i \in 1..Len(s.lamp_id_map) :
                    s.lamp_id_map[i].enabled /\ s.lamp_id_map[i].ies })

reflectance_enabled(s) == s.ref_manager.enabled

reflectance_passes(s) ==
    IF ~reflectance_enabled(s) THEN 0
    ELSE IF s.ref_manager.max_num_passes # 0 THEN s.ref_manager.max_num_passes
    ELSE DefaultPasses

reflectance_grid_points(s) ==
    IF ~reflectance_enabled(s) THEN 0
    ELSE SumSeq([i \in 1..Len(s.ref_manager.surfaces) |-> prod(s.ref_manager.surfaces[i])])

\* Variant: the passes are left out of the reflectance cost.
reflectance_cost_one_pass(s) ==
    reflectance_grid_points(s) * COST_PER_REFLECTANCE_POINT

reflectance_cost(s) ==
    reflectance_grid_points(s) * reflectance_passes(s) * COST_PER_REFLECTANCE_POINT

grid_cost(s) == total_grid_points(s) * COST_PER_GRID_POINT

lamp_cost(s) == lamp_count(s) * COST_PER_LAMP

\* estimate_session_cost(session) for a session given in detail.
estimate(s) ==
    [total_grid_points |-> total_grid_points(s),
     zones |-> zone_details(s),
     lamp_count |-> lamp_count(s),
     reflectance_enabled |-> reflectance_enabled(s),
     reflectance_passes |-> reflectance_passes(s),
     reflectance_grid_points |-> reflectance_grid_points(s),
     reflectance_cost |-> reflectance_cost(s),
     grid_cost |-> grid_cost(s),
     lamp_cost |-> lamp_cost(s),
     calc_time_seconds |-> s.calc_time,
     budget_units |-> grid_cost(s) + lamp_cost(s) + reflectance_cost(s)]

(***************************************************************************)
(* get_budget_reduction_suggestions.  A suggestion is [kind, id]; id is    *)
(* the zone of a "zone" suggestion and 0 otherwise.  The float comparisons *)
(* cost > budget_units * 0.2, grid_cost / budget_units > 0.5 and           *)
(* reflectance_cost / budget_units > 0.3 are taken over the rationals.     *)
(***************************************************************************)
Suggest(kind) == [kind |-> kind, id |-> 0]

Take(s, n) == SubSeq(s, 1, IF Len(s) < n THEN Len(s) ELSE n)

high_cost_zones(e) ==
    SelectSeq(e.zones, LAMBDA z : z.enabled /\ 5 * z.cost > e.budget_units)

\* Variant: the suggestion on the number of lamps comes after the zones.
get_budget_reduction_suggestions_zones_first(e, time_over) ==
    IF e.budget_units = 0 THEN <<>>
    ELSE LET lamps_part ==
                 IF time_over /\ e.lamp_count > 1 THEN <<Suggest("reduce_lamps")>> ELSE <<>>
             top == Take(high_cost_zones(e), 2)
             zone_part == [i \in 1..Len(top) |-> [kind |-> "zone", id |-> top[i].id]]
             grid_part ==
                 IF 2 * e.grid_cost > e.budget_units /\ high_cost_zones(e) = <<>>
                 THEN <<Suggest("reduce_grid")>> ELSE <<>>
             reflectance_part ==
                 IF e.reflectance_enabled
                 THEN (IF 10 * e.reflectance_cost > 3 * e.budget_units
                       THEN <<Suggest("reduce_passes")>> ELSE <<>>)
                      \o <<Suggest("disable_reflectance")>>
                 ELSE <<>>
             count_part ==
                 IF e.lamp_count > 5 /\ ~time_over
                 THEN <<Suggest("disable_lamps")>> ELSE <<>>
             found == zone_part \o lamps_part \o grid_part \o reflectance_part \o count_part
         IN  IF found = <<>> THEN <<Suggest("remove_zones")>> ELSE found

get_budget_reduction_suggestions(e, time_over) ==
    IF e.budget_units = 0 THEN <<>>
    ELSE LET lamps_part ==
                 IF time_over /\ e.lamp_count > 1 THEN <<Suggest("reduce_lamps")>> ELSE <<>>
             top == Take(high_cost_zones(e), 2)
             zone_part == [i \in 1..Len(top) |-> [kind |-> "zone", id |-> top[i].id]]
             grid_part ==
                 IF 2 * e.grid_cost > e.budget_units /\ high_cost_zones(e) = <<>>
                 THEN <<Suggest("reduce_grid")>> ELSE <<>>
             reflectance_part ==
                 IF e.reflectance_enabled
                 THEN (IF 10 * e.reflectance_cost > 3 * e.budget_units
                       THEN <<Suggest("reduce_passes")>> ELSE <<>>)
                      \o <<Suggest("disable_reflectance")>>
                 ELSE <<>>
             count_part ==
                 IF e.lamp_count > 5 /\ ~time_over
                 THEN <<Suggest("disable_lamps")>> ELSE <<>>
             found == lamps_part \o zone_part \o grid_part \o reflectance_part \o count_part
         IN  IF found = <<>> THEN <<Suggest("remove_zones")>> ELSE found

(***************************************************************************)
(* check_budget for a session given in detail: it returns, or raises       *)
(* HTTPException(status_code=400, detail=...).                             *)
(***************************************************************************)
\* In the place of a percentage: the division raised ZeroDivisionError.
ZeroDivisionError == -1

\* round(n / d * 100) for d > 0: to the nearest integer, a half to the even one.
\* The quotient is taken digit by digit so that no intermediate product
\* leaves the 32-bit integers of the checker.
round_percent(n, d) ==
    LET r0 == n % d
        q1 == (10 * r0) \div d
        r1 == (10 * r0) % d
        q2 == (10 * r1) \div d
        r == (10 * r1) % d
        q == 100 * (n \div d) + 10 * q1 + q2
    IN  IF 2 * r < d THEN q
        ELSE IF 2 * r > d THEN q + 1
        ELSE IF q % 2 = 0 THEN q ELSE q + 1

\* Variant: the division is made with estimate['budget_units'] as it is.
percent_of_budget_unguarded(part, e) ==
    IF e.budget_units = 0 THEN ZeroDivisionError
    ELSE round_percent(part, e.budget_units)

\* budget_units = estimate['budget_units'] or 1;
\* round(part / budget_units * 100) if budget_units else 0
percent_of_budget(part, e) ==
    LET budget_units == IF e.budget_units # 0 THEN e.budget_units ELSE 1
    IN  IF budget_units # 0 THEN round_percent(part, budget_units) ELSE 0

zone_breakdown(e) ==
    LET on == SelectSeq(e.zones, LAMBDA z : z.enabled)
    IN  [i \in 1..Len(on) |->
           [id |-> on[i].id, grid_points |-> on[i].grid_points, cost |-> on[i].cost,
            percent |-> percent_of_budget(on[i].cost, e)]]

budget_detail(e, cost) ==
    LET total == e.budget_units + cost
        over_budget == budget_exceeded(e, cost)
        over_time == time_exceeded(e)
    IN  [error |-> "budget_exceeded",
         message |-> IF over_budget THEN "Session exceeds compute budget"
                     ELSE "Estimated calculation time exceeds limit",
         budget |-> [used |-> total, max |-> MAX_SESSION_BUDGET,
                     percent |-> round_percent(total, MAX_SESSION_BUDGET)],
         zones |-> zone_breakdown(e),
         lamps |-> [count |-> e.lamp_count, cost |-> e.lamp_cost,
                    percent |-> percent_of_budget(e.lamp_cost, e)],
         reflectance |->
             IF e.reflectance_enabled
             THEN [enabled |-> TRUE, passes |-> e.reflectance_passes,
                   grid_points |-> e.reflectance_grid_points,
                   cost |-> e.reflectance_cost,
                   percent |-> percent_of_budget(e.reflectance_cost, e)]
             ELSE [enabled |-> FALSE],
         time_estimate |->
             IF over_time \/ 2 * e.calc_time_seconds > MAX_CALC_TIME_SECONDS
             THEN [present |-> TRUE, estimated_seconds |-> e.calc_time_seconds,
                   max_seconds |-> MAX_CALC_TIME_SECONDS,
                   percent |-> round_percent(e.calc_time_seconds, MAX_CALC_TIME_SECONDS)]
             ELSE [present |-> FALSE],
         suggestions |-> get_budget_reduction_suggestions(e, over_time)]

\* The percentages of the categories in a detail.
category_percents(detail) ==
    { detail.zones[i].percent : i \in 1..Len(detail.zones) }
      \cup {detail.lamps.percent}
      \cup (IF detail.reflectance.enabled THEN {detail.reflectance.percent} ELSE {})

\* What a call of check_budget(session, additional_cost) does.
check(s, cost) ==
    LET e == estimate(s)
    IN  IF ~budget_exceeded(e, cost) /\ ~time_exceeded(e)
        THEN [outcome |-> "returned"]
        ELSE IF ZeroDivisionError \in category_percents(budget_detail(e, cost))
        THEN [outcome |-> "ZeroDivisionError"]
        ELSE [outcome |-> "HTTPException", status_code |-> 400,
              detail |-> budget_detail(e, cost)]

(***************************************************************************)
(* The estimate and the admission check as functions of the session: the   *)
(* session is drawn from small models on both sides of the ceilings, and   *)
(* the two functions are called on it, any number of times.                *)
(***************************************************************************)
MaxZoneEntries == 3

CostZoneIds == 1..MaxZoneEntries

\* num_points of a 5 x 5 plane, and of a grid whose cost alone is the ceiling.
NumPointsInputs == { <<5, 5>>, <<5000, 1000>> }

ZoneMapInputs ==
    UNION { { zs \in [1..n -> [id : CostZoneIds, enabled : BOOLEAN, num_points : NumPointsInputs]] :
                \A i \in 1..n : zs[i].id = i }
            : n \in 0..MaxZoneEntries }

Lamp(i, enabled, ies) == [id |-> i, enabled |-> enabled, ies |-> ies]

LampMapInputs ==
    { <<>>,
      <<Lamp(1, TRUE, TRUE)>>, <<Lamp(1, TRUE, FALSE)>>,
      <<Lamp(1, FALSE, TRUE)>>, <<Lamp(1, FALSE, FALSE)>>,
      <<Lamp(1, TRUE, TRUE), Lamp(2, TRUE, TRUE)>>,
      <<Lamp(1, TRUE, TRUE), Lamp(2, FALSE, TRUE)>>,
      <<Lamp(1, TRUE, FALSE), Lamp(2, TRUE, TRUE), Lamp(3, FALSE, FALSE)>> }

RefManagerInputs ==
    { [enabled |-> FALSE, max_num_passes |-> 0, surfaces |-> << <<10, 10>> >>],
      [enabled |-> TRUE, max_num_passes |-> 0, surfaces |-> << <<10, 10>> >>],
      [enabled |-> TRUE, max_num_passes |-> 0, surfaces |-> <<>>],
      [enabled |-> TRUE, max_num_passes |-> 5, surfaces |-> << <<10, 10>> >>],
      [enabled |-> TRUE, max_num_passes |-> 2, surfaces |-> << <<10, 10>>, <<5, 5>> >>],
      [enabled |-> FALSE, max_num_passes |-> 2, surfaces |-> << <<10, 10>>, <<5, 5>> >>] }

CalcTimeInputs == {10, MAX_CALC_TIME_SECONDS + 1}

SessionInputs ==
    [zone_id_map : ZoneMapInputs, lamp_id_map : LampMapInputs,
     ref_manager : RefManagerInputs, calc_time : CalcTimeInputs]

CostInputs == {0, 500, MAX_SESSION_BUDGET + 1}

\* Variant: the zones of the session are put in the order of the breakdown.
EstimateCall_sorts_session ==
    /\ reply' = [handler |-> "estimate_session_cost", estimate |-> estimate(the_session),
                 repeated |-> reply.handler = "estimate_session_cost"]
    /\ the_session' =
          [the_session EXCEPT
             !.zone_id_map =
                 LET order == zone_details(the_session)
                 IN  [k \in 1..Len(order) |->
                        CHOOSE z \in Elems(the_session.zone_id_map) : z.id = order[k].id]]
    /\ UNCHANGED besidesCost

\* estimate = estimate_session_cost(session); repeated tells a call that
\* follows another call of the function directly.
EstimateCall ==
    /\ reply' = [handler |-> "estimate_session_cost", estimate |-> estimate(the_session),
                 repeated |-> reply.handler = "estimate_session_cost"]
    /\ UNCHANGED the_session
    /\ UNCHANGED besidesCost

\* check_budget(session, additional_cost)
CheckCall(cost) ==
    /\ reply' = [handler |-> "check_budget", additional_cost |-> cost,
                 estimate_before |-> estimate(the_session),
                 result |-> check(the_session, cost)]
    /\ UNCHANGED the_session
    /\ UNCHANGED besidesCost

EstimateInit ==
    /\ the_session \in SessionInputs
    /\ reply = NoReply
    /\ GateIdle
    /\ StoreIdle
    /\ EditIdle
    /\ LoopIdle
    /\ CheckIdle
    /\ AuthIdle

EstimateNext ==
    \/ EstimateCall
    \/ \E cost \in CostInputs : CheckCall(cost)

EstimateSpec == EstimateInit /\ [][EstimateNext]_vars

(***************************************************************************)
(* session_routers.py: the handlers that change the model of a session,    *)
(* one action per request.  A zone or lamp gets the next free identifier.  *)
(* After a change the engine's time prediction is whatever the engine      *)
(* says for the new model.                                                 *)
(***************************************************************************)
\* The number of grid points the new zone will have.
estimate_zone_grid_points(zone) == prod(zone.num_points)

\* _log_and_raise(operation, e): HTTPException(status_code=400, detail=operation)
\* raised is the exception the handler caught, request what it was asked.
log_and_raise(handler, operation, raised, request) ==
    [handler |-> handler, status_code |-> 400,
     detail |-> [error |-> operation], raised |-> raised, request |-> request]

Success(handler) ==
    [handler |-> handler, status_code |-> 200,
     detail |-> [error |-> "none"], raised |-> [outcome |-> "returned"]]

Changed(s) ==
    /\ \E time \in CalcTimeInputs : the_session' = [s EXCEPT !.calc_time = time]
    /\ UNCHANGED besidesCost

ZoneInputs == [enabled : BOOLEAN, num_points : NumPointsInputs]

\* POST /zones
add_session_zone(zone) ==
    LET new_zone_cost == estimate_zone_grid_points(zone) * COST_PER_GRID_POINT
        checked == check(the_session, new_zone_cost)
        guv_zone == [id |-> Len(the_session.zone_id_map) + 1,
                     enabled |-> zone.enabled, num_points |-> zone.num_points]
    IN  /\ Len(the_session.zone_id_map) < NumZones
        /\ IF checked.outcome = "returned"
           THEN /\ reply' = Success("add_session_zone")
                /\ Changed([the_session EXCEPT !.zone_id_map = Append(@, guv_zone)])
           ELSE /\ reply' = log_and_raise("add_session_zone", "Failed to add zone", checked, zone)
                /\ UNCHANGED the_session
                /\ UNCHANGED besidesCost

ZoneUpdates ==
    [enabled : {"unset", "true", "false"}, num_points : {<<>>} \cup NumPointsInputs]

\* PATCH /zones/{zone_id}; num_points = <<>> stands for no grid update.
update_session_zone(i, updates) ==
    LET zone == the_session.zone_id_map[i]
        updated ==
            [zone EXCEPT
               !.enabled = IF updates.enabled = "unset" THEN @ ELSE updates.enabled = "true",
               !.num_points = IF updates.num_points = <<>> THEN @ ELSE updates.num_points]
    IN  /\ i \in DOMAIN the_session.zone_id_map
        /\ reply' = Success("update_session_zone")
        /\ Changed([the_session EXCEPT !.zone_id_map[i] = updated])

\* POST /zones/{zone_id}/copy
copy_session_zone(i) ==
    /\ i \in DOMAIN the_session.zone_id_map
    /\ Len(the_session.zone_id_map) < NumZones
    /\ LET copy == [the_session.zone_id_map[i] EXCEPT !.id = Len(the_session.zone_id_map) + 1]
       IN  /\ reply' = Success("copy_session_zone")
           /\ Changed([the_session EXCEPT !.zone_id_map = Append(@, copy)])

\* POST /lamps: the lamp of the request, with its photometric data.
add_session_lamp(enabled) ==
    /\ Len(the_session.lamp_id_map) < NumLamps
    /\ reply' = Success("add_session_lamp")
    /\ Changed([the_session EXCEPT
                  !.lamp_id_map = Append(@, Lamp(Len(the_session.lamp_id_map) + 1, enabled, TRUE))])

\* PATCH /lamps/{lamp_id}: enabled
update_session_lamp(i, enabled) ==
    /\ i \in DOMAIN the_session.lamp_id_map
    /\ reply' = Success("update_session_lamp")
    /\ Changed([the_session EXCEPT !.lamp_id_map[i].enabled = enabled])

\* POST /lamps/{lamp_id}/copy
copy_session_lamp(i) ==
    /\ i \in DOMAIN the_session.lamp_id_map
    /\ Len(the_session.lamp_id_map) < NumLamps
    /\ reply' = Success("copy_session_lamp")
    /\ Changed([the_session EXCEPT
                  !.lamp_id_map = Append(@, [the_session.lamp_id_map[i] EXCEPT
                                               !.id = Len(the_session.lamp_id_map) + 1])])

\* The fields of SessionRoomUpdate that bear on the cost;
\* reflectance_max_num_passes = 0 stands for None.
RoomUpdates ==
    [enable_reflectance : {"unset", "true", "false"}, reflectance_max_num_passes : {0, 2}]

apply_room_updates(s, updates) ==
    [s EXCEPT
       !.ref_manager.enabled =
           IF updates.enable_reflectance = "unset" THEN @
           ELSE updates.enable_reflectance = "true",
       !.ref_manager.max_num_passes =
           IF updates.reflectance_max_num_passes = 0 THEN @
           ELSE updates.reflectance_max_num_passes]

\* Variant: the pass count of the request is set before the budget is checked.
update_session_room_passes_first(updates) ==
    LET enabling_cost ==
            estimate(the_session).total_grid_points * 5 * COST_PER_REFLECTANCE_POINT
        checked ==
            IF updates.enable_reflectance = "true" /\ ~the_session.ref_manager.enabled
            THEN check(the_session, enabling_cost)
            ELSE [outcome |-> "returned"]
    IN  IF checked.outcome = "returned"
        THEN /\ reply' = Success("update_session_room")
             /\ Changed(apply_room_updates(the_session, updates))
        ELSE /\ reply' = log_and_raise("update_session_room", "Failed to update room", checked, updates)
             /\ the_session' =
                    apply_room_updates(the_session, [updates EXCEPT !.enable_reflectance = "unset"])
             /\ UNCHANGED besidesCost

\* PATCH /room
update_session_room(updates) ==
    LET enabling_cost ==
            estimate(the_session).total_grid_points * 5 * COST_PER_REFLECTANCE_POINT
        checked ==
            IF updates.enable_reflectance = "true" /\ ~the_session.ref_manager.enabled
            THEN check(the_session, enabling_cost)
            ELSE [outcome |-> "returned"]
    IN  IF checked.outcome = "returned"
        THEN /\ reply' = Success("update_session_room")
             /\ Changed(apply_room_updates(the_session, updates))
        ELSE /\ reply' = log_and_raise("update_session_room", "Failed to update room", checked, updates)
             /\ UNCHANGED the_session
             /\ UNCHANGED besidesCost

Zone(i, enabled, num_points) == [id |-> i, enabled |-> enabled, num_points |-> num_points]

\* The models a client sends to /init or /load.
RequestedModels ==
    { [zone_id_map |-> <<Zone(1, TRUE, <<5, 5>>)>>,
       lamp_id_map |-> <<Lamp(1, TRUE, TRUE)>>,
       ref_manager |-> [enabled |-> FALSE, max_num_passes |-> 0, surfaces |-> << <<10, 10>> >>],
       calc_time |-> 10],
      [zone_id_map |-> <<Zone(1, TRUE, <<5000, 1000>>)>>,
       lamp_id_map |-> <<>>,
       ref_manager |-> [enabled |-> FALSE, max_num_passes |-> 0, surfaces |-> << <<10, 10>> >>],
       calc_time |-> 10],
      [zone_id_map |-> <<>>,
       lamp_id_map |-> <<>>,
       ref_manager |-> [enabled |-> FALSE, max_num_passes |-> 0, surfaces |-> << <<10, 10>> >>],
       calc_time |-> 10] }

\* POST /init (and POST /load): the session's model is replaced.
init_session(request) ==
    /\ reply' = Success("init_session")
    /\ Changed(request)

\* POST /calculate up to the pre-flight check: the rejection leaves the
\* handler as check_budget raised it.
preflight_check ==
    LET checked == check(the_session, 0)
    IN  /\ reply' = IF checked.outcome = "returned" THEN Success("calculate_session")
                    ELSE [handler |-> "calculate_session", status_code |-> checked.status_code,
                          detail |-> checked.detail, raised |-> checked]
        /\ UNCHANGED the_session
        /\ UNCHANGED besidesCost

MutationInit ==
    /\ the_session \in RequestedModels
    /\ reply = NoReply
    /\ GateIdle
    /\ StoreIdle
    /\ EditIdle
    /\ LoopIdle
    /\ CheckIdle
    /\ AuthIdle

MutationNext ==
    \/ \E zone \in ZoneInputs : add_session_zone(zone)
    \/ \E i \in 1..NumZones, updates \in ZoneUpdates : update_session_zone(i, updates)
    \/ \E i \in 1..NumZones : copy_session_zone(i)
    \/ \E enabled \in BOOLEAN : add_session_lamp(enabled)
    \/ \E i \in 1..NumLamps, enabled \in BOOLEAN : update_session_lamp(i, enabled)
    \/ \E i \in 1..NumLamps : copy_session_lamp(i)
    \/ \E updates \in RoomUpdates : update_session_room(updates)
    \/ \E request \in RequestedModels : init_session(request)
    \/ preflight_check
    \/ EstimateCall

MutationSpec == MutationInit /\ [][MutationNext]_vars

(***************************************************************************)
(* Properties of the estimate.  The expected values are computed here from *)
(* the session itself, entry by entry.                                     *)
(***************************************************************************)
Estimated == reply.handler = "estimate_session_cost"

\* Grid points of a plane (two dimensions) or a volume (three).
PointsOf(num_points) ==
    IF Len(num_points) = 2 THEN num_points[1] * num_points[2]
    ELSE num_points[1] * num_points[2] * num_points[3]

RECURSIVE SumOver(_, _)
SumOver(indices, f) ==
    IF indices = {} THEN 0
    ELSE LET i == CHOOSE j \in indices : TRUE
         IN  f[i] + SumOver(indices \ {i}, f)

EnabledZones == { i \in DOMAIN the_session.zone_id_map : the_session.zone_id_map[i].enabled }

DisabledZones == DOMAIN the_session.zone_id_map \ EnabledZones

ZonePoints == [i \in DOMAIN the_session.zone_id_map |-> PointsOf(the_session.zone_id_map[i].num_points)]

SurfacePoints ==
    [i \in DOMAIN the_session.ref_manager.surfaces |-> PointsOf(the_session.ref_manager.surfaces[i])]

CountedLamps ==
    { i \in DOMAIN the_session.lamp_id_map :
        the_session.lamp_id_map[i].enabled /\ the_session.lamp_id_map[i].ies }

ExpectedPasses ==
    IF the_session.ref_manager.max_num_passes # 0
    THEN the_session.ref_manager.max_num_passes ELSE 5

ExpectedReflectanceCost ==
    IF the_session.ref_manager.enabled
    THEN SumOver(DOMAIN SurfacePoints, SurfacePoints) * ExpectedPasses * 1
    ELSE 0

\* C25: budget_units is 10 x total_grid_points + 50,000 x lamp_count +
\* reflectance_cost, where reflectance_cost is the grid points of all
\* reflective surfaces x passes x 1 when reflectance is enabled and 0
\* otherwise, passes being the configured count or 5 when none is set; one
\* 5x5 zone with one counted lamp gives 50250, and reflectance with 5 passes
\* over a 10x10 grid adds exactly 500.
C25_BudgetUnitsFormula ==
    Estimated =>
        LET e == reply.estimate
        IN  /\ e.budget_units =
                  10 * e.total_grid_points + 50000 * e.lamp_count + e.reflectance_cost
            /\ e.reflectance_cost = ExpectedReflectanceCost
            /\ e.budget_units =
                  10 * SumOver(EnabledZones, ZonePoints)
                    + 50000 * Cardinality(CountedLamps) + ExpectedReflectanceCost
            /\ ( /\ Len(the_session.zone_id_map) = 1
                 /\ EnabledZones = {1}
                 /\ the_session.zone_id_map[1].num_points = <<5, 5>>
                 /\ Cardinality(CountedLamps) = 1 )
               => /\ ~the_session.ref_manager.enabled => e.budget_units = 50250
                  /\ ( /\ the_session.ref_manager.enabled
                       /\ ExpectedPasses = 5
                       /\ the_session.ref_manager.surfaces = << <<10, 10>> >> )
                     => e.budget_units = 50250 + 500

\* An estimate of the 5x5 zone with one counted lamp and reflectance enabled
\* whose pass count is not set has been returned, with the 500 units added.
C25_Witness ==
    /\ Estimated
    /\ Len(the_session.zone_id_map) = 1
    /\ the_session.zone_id_map[1].num_points = <<5, 5>>
    /\ the_session.ref_manager.enabled
    /\ the_session.ref_manager.max_num_passes = 0
    /\ reply.estimate.reflectance_passes = 5
    /\ reply.estimate.budget_units = 50750

\* C26: total_grid_points is the sum of the grid points of the enabled zones
\* only, the zone breakdown has one entry per zone (N disabled + M enabled),
\* and each disabled zone is reported with its own grid points and cost 0.
C26_DisabledZonesReportedNotCharged ==
    Estimated =>
        LET e == reply.estimate
        IN  /\ e.total_grid_points = SumOver(EnabledZones, ZonePoints)
            /\ Len(e.zones) = Cardinality(DisabledZones) + Cardinality(EnabledZones)
            /\ \A i \in DOMAIN the_session.zone_id_map :
                 \E k \in DOMAIN e.zones :
                    /\ e.zones[k].id = the_session.zone_id_map[i].id
                    /\ e.zones[k].enabled = the_session.zone_id_map[i].enabled
                    /\ e.zones[k].grid_points = ZonePoints[i]
                    /\ e.zones[k].cost = IF i \in EnabledZones THEN 10 * ZonePoints[i] ELSE 0

\* An estimate of a session with a disabled and an enabled zone has been returned.
C26_Witness ==
    /\ Estimated
    /\ DisabledZones # {}
    /\ EnabledZones # {}
    /\ reply.estimate.total_grid_points > 0

\* C27: lamp_count is the number of lamps that are enabled and have
\* photometric data; a lamp without data adds nothing to lamp_count and
\* lamp_cost, enabled or not, and neither does a disabled lamp with data.
C27_LampCountNeedsEnabledAndData ==
    Estimated =>
        /\ reply.estimate.lamp_count = Cardinality(CountedLamps)
        /\ reply.estimate.lamp_cost = 50000 * Cardinality(CountedLamps)

\* An estimate has been returned for lamps of which one is enabled without
\* data, one is counted and one is disabled.
C27_Witness ==
    /\ Estimated
    /\ \E i \in DOMAIN the_session.lamp_id_map :
          the_session.lamp_id_map[i].enabled /\ ~the_session.lamp_id_map[i].ies
    /\ \E i \in DOMAIN the_session.lamp_id_map : ~the_session.lamp_id_map[i].enabled
    /\ reply.estimate.lamp_count = 1

(***************************************************************************)
(* Properties of the admission check on a session given in detail.         *)
(***************************************************************************)
Checked == reply.handler = "check_budget"

Passed == Checked /\ reply.result.outcome = "returned"

Rejected == Checked /\ reply.result.outcome = "HTTPException"

\* C24: for a fixed model, total = budget_units + additional_cost grows
\* strictly with additional_cost; if check_budget(session, 0) fails then
\* check_budget(session, x) fails for every x > 0, and if it passes for some
\* x > 0 then it passes for 0.
C24_AdmissionMonotonic ==
    (Checked /\ reply.additional_cost > 0) =>
        LET alone == check(the_session, 0)
        IN  /\ alone.outcome # "returned" => ~Passed
            /\ Passed => alone.outcome = "returned"
            /\ Rejected =>
                 /\ reply.result.detail.budget.used =
                       reply.estimate_before.budget_units + reply.additional_cost
                 /\ reply.result.detail.budget.used > reply.estimate_before.budget_units
                 /\ alone.outcome = "HTTPException" =>
                       reply.result.detail.budget.used > alone.detail.budget.used

\* A check with a positive additional cost has failed on a model that is over
\* the unit ceiling by itself, and its total is the larger one.
C24_Witness ==
    /\ Rejected
    /\ reply.additional_cost > 0
    /\ check(the_session, 0).outcome = "HTTPException"
    /\ reply.estimate_before.budget_units > MAX_SESSION_BUDGET
    /\ reply.result.detail.budget.used > check(the_session, 0).detail.budget.used

(***************************************************************************)
(* Properties of the handlers that change a session's model.               *)
(***************************************************************************)
SpeculativeHandlers == {"add_session_zone", "update_session_room"}

MutatingHandlers ==
    {"add_session_zone", "update_session_zone", "copy_session_zone",
     "add_session_lamp", "update_session_lamp", "copy_session_lamp",
     "update_session_room", "init_session"}

\* The handler that has just answered: its speculative check failed.
SpeculativeCheckFailed ==
    /\ reply.handler \in SpeculativeHandlers
    /\ reply.raised.outcome = "HTTPException"

\* C21: when the speculative check of add-zone or of a room update fails,
\* the mutation is not applied: zone map, lamp map and room are after the
\* rejected request what they were before it, including the other fields of
\* the same room update.
C21_Step ==
    SpeculativeCheckFailed' => the_session' = the_session

C21_RejectedMutationNotApplied == [][C21_Step]_vars

\* A room update that asked for reflectance and for another pass count has
\* been rejected, and the pass count is still the one from before.
C21_Witness ==
    /\ SpeculativeCheckFailed
    /\ reply.handler = "update_session_room"
    /\ reply.request.reflectance_max_num_passes = 2
    /\ the_session.ref_manager.max_num_passes = 0
    /\ ~the_session.ref_manager.enabled

\* C22 (as stated): no accepted mutation moves a session whose budget total
\* was within the unit ceiling to a total above it.
C22_Step ==
    ( /\ estimate(the_session).budget_units <= MAX_SESSION_BUDGET
      /\ reply'.handler \in MutatingHandlers
      /\ reply'.status_code = 200 )
    => estimate(the_session').budget_units <= MAX_SESSION_BUDGET

C22_AcceptedMutationsKeepCeiling == [][C22_Step]_vars

\* C23 (as stated): a rejection raised by check_budget reaches the caller
\* with the status and the structured payload it was raised with, whichever
\* handler made the check.
C23_RejectionReachesCallerVerbatim ==
    ( /\ reply.handler \in SpeculativeHandlers \cup {"calculate_session"}
      /\ reply.raised.outcome = "HTTPException" )
    => /\ reply.status_code = reply.raised.status_code
       /\ reply.detail = reply.raised.detail

ExpectedBudget ==
    10 * SumOver(EnabledZones, ZonePoints)
      + 50000 * Cardinality(CountedLamps) + ExpectedReflectanceCost

\* C28: the estimate is pure and recomputed on every call: a call leaves the
\* session's room, lamp map and zone map unchanged; a call that follows
\* another with no mutation in between returns the same budget_units,
\* total_grid_points and zone breakdown; and the estimate or admission check
\* that follows a mutation is the one of the mutated model.
C28_Step ==
    /\ reply'.handler = "estimate_session_cost" =>
         /\ the_session' = the_session
         /\ reply'.estimate.budget_units = ExpectedBudget'
         /\ reply'.estimate.total_grid_points = SumOver(EnabledZones, ZonePoints)'
         /\ Len(reply'.estimate.zones) = Len(the_session'.zone_id_map)
         /\ reply.handler = "estimate_session_cost" =>
              /\ reply'.repeated
              /\ reply'.estimate.budget_units = reply.estimate.budget_units
              /\ reply'.estimate.total_grid_points = reply.estimate.total_grid_points
              /\ reply'.estimate.zones = reply.estimate.zones
    /\ reply'.handler = "calculate_session" =>
         /\ the_session' = the_session
         /\ reply'.status_code = 200 <=>
              /\ ExpectedBudget' <= MAX_SESSION_BUDGET
              /\ the_session'.calc_time <= MAX_CALC_TIME_SECONDS

C28_EstimatePureAndRecomputed == [][C28_Step]_vars

\* The estimate has been called twice in a row on a model that handlers
\* have changed since it was initialised (it has two zones, the second one
\* the more expensive), and it answers for that model.
C28_Witness ==
    /\ Estimated
    /\ reply.repeated
    /\ Len(the_session.zone_id_map) = 2
    /\ the_session.zone_id_map[1].num_points = <<5, 5>>
    /\ the_session.zone_id_map[2].num_points = <<5000, 1000>>
    /\ the_session.zone_id_map[2].enabled
    /\ reply.estimate.zones[1].id = 2
    /\ reply.estimate.budget_units = ExpectedBudget

\* C30: building a rejection never divides by zero: when the session's
\* budget_units is 0 (the rejection comes from additional_cost alone or from
\* the time ceiling), check_budget still raises the structured 400
\* rejection, and the percentages of zones, lamps and reflectance in it are 0.
C30_NoDivisionByZero ==
    Checked =>
        /\ reply.result.outcome \in {"returned", "HTTPException"}
        /\ (reply.estimate_before.budget_units = 0 /\ ~Passed) =>
              /\ Rejected
              /\ reply.result.status_code = 400
              /\ reply.result.detail.error = "budget_exceeded"
              /\ \A i \in DOMAIN reply.result.detail.zones :
                    reply.result.detail.zones[i].percent = 0
              /\ reply.result.detail.lamps.percent = 0
              /\ reply.result.detail.reflectance.enabled =>
                    reply.result.detail.reflectance.percent = 0

\* A session of 0 budget units, with reflectance enabled over no surface
\* and within the time ceiling, has been rejected for the additional cost
\* alone, with percentages 0.
C30_Witness ==
    /\ Rejected
    /\ reply.estimate_before.budget_units = 0
    /\ reply.additional_cost > MAX_SESSION_BUDGET
    /\ the_session.calc_time <= MAX_CALC_TIME_SECONDS
    /\ reply.result.detail.reflectance.enabled
    /\ reply.result.detail.reflectance.percent = 0
    /\ reply.result.detail.lamps.percent = 0

(***************************************************************************)
(* Properties of the suggestion list of a rejection.                       *)
(***************************************************************************)
Suggestions == reply.result.detail.suggestions

LampsFirst ==
    /\ the_session.calc_time > MAX_CALC_TIME_SECONDS
    /\ Cardinality(CountedLamps) > 1

ZoneCost(i) == 10 * ZonePoints[i]

\* The zone suggestions at positions from..to name zones of the set among,
\* the most expensive of them first.
HighestFirst(from, to, among) ==
    \A j \in from..to :
       /\ j \in DOMAIN Suggestions
       /\ Suggestions[j].kind = "zone"
       /\ Suggestions[j].id \in among
       /\ \A l \in from..(j - 1) : Suggestions[l].id # Suggestions[j].id
       /\ \A i \in among :
            \/ \E l \in from..j : Suggestions[l].id = i
            \/ ZoneCost(i) <= ZoneCost(Suggestions[j].id)

Min2(n) == IF n < 2 THEN n ELSE 2

\* The enabled zones whose cost is more than 20% of budget_units.
QualifyingZones == { i \in EnabledZones : 5 * ZoneCost(i) > ExpectedBudget }

KindsOf(s) == { s[j].kind : j \in DOMAIN s }

Bearer == "Bearer "

\* secrets.token_urlsafe(32)
Tokens == { <<"a">>, <<"b">> }

\* hashlib.sha256(token.encode()).hexdigest(): never empty, never the token.
hash_token(token) == <<"sha256">> \o token

\* The Authorization headers a client may send: none, a token without the
\* scheme, a bearer token (the right one or not, as the session's token is
\* "a" or "b"), and the scheme word twice.
Headers == { <<>>, <<"a">>, <<Bearer, "a">>, <<Bearer, Bearer, "a">> }

NoSession == [id |-> NoId, token_hash |-> <<>>]

NoCall ==
    [at |-> "idle", dep |-> "none", id |-> NoId, authorization |-> <<>>,
     session |-> NoSession, existing |-> FALSE, status_code |-> 0]

\* Session.verify_token
verify_token(session, token) ==
    IF session.token_hash = <<>> THEN FALSE
    ELSE hash_token(token) = session.token_hash

\* authorization.startswith("Bearer ")
startswith_bearer(authorization) ==
    Len(authorization) >= 1 /\ authorization[1] = Bearer

\* authorization.replace("Bearer ", ""): every occurrence is removed.
replace_bearer(authorization) ==
    SelectSeq(authorization, LAMBDA x : x # Bearer)

\* The checks both dependencies make on a session they found: the status
\* they raise, or 200 when they return the session.
token_check(session, authorization) ==
    IF DEV_MODE THEN 200
    ELSE IF session.token_hash = <<>> THEN 401
    ELSE IF authorization = <<>> \/ ~startswith_bearer(authorization) THEN 401
    ELSE IF ~verify_token(session, replace_bearer(authorization)) THEN 401
    ELSE 200

\* get_session: manager.get_session(session_id, auto_create=False); a miss
\* is the 404.
CallGetSession(c) ==
    /\ caller[c].at = "idle"
    /\ \E id \in SessionIds, authorization \in Headers :
          caller' = [caller EXCEPT ![c] =
              IF id \in DOMAIN vault
              THEN [NoCall EXCEPT !.at = "found", !.dep = "get_session", !.id = id,
                                  !.authorization = authorization,
                                  !.session = vault[id], !.existing = TRUE]
              ELSE [NoCall EXCEPT !.at = "raised", !.dep = "get_session", !.id = id,
                                  !.authorization = authorization,
                                  !.status_code = 404]]
    /\ UNCHANGED <<DEV_MODE, vault>>
    /\ UNCHANGED besidesAuth

\* get_or_create_session: the same lookup; a miss goes on to get_or_create.
CallGetOrCreateSession(c) ==
    /\ caller[c].at = "idle"
    /\ \E id \in SessionIds, authorization \in Headers :
          caller' = [caller EXCEPT ![c] =
              IF id \in DOMAIN vault
              THEN [NoCall EXCEPT !.at = "found", !.dep = "get_or_create_session",
                                  !.id = id, !.authorization = authorization,
                                  !.session = vault[id], !.existing = TRUE]
              ELSE [NoCall EXCEPT !.at = "missed", !.dep = "get_or_create_session",
                                  !.id = id, !.authorization = authorization]]
    /\ UNCHANGED <<DEV_MODE, vault>>
    /\ UNCHANGED besidesAuth

\* The rest of either dependency for a session that was found.
ValidateToken(c) ==
    /\ caller[c].at = "found"
    /\ LET status == token_check(caller[c].session, caller[c].authorization)
       IN  caller' = [caller EXCEPT ![c].at = IF status = 200 THEN "returned" ELSE "raised",
                                    ![c].status_code = status]
    /\ UNCHANGED <<DEV_MODE, vault>>
    /\ UNCHANGED besidesAuth

\* get_or_create_session after a miss: return manager.get_or_create(session_id),
\* which is get_session(session_id, auto_create=True) under the store's lock:
\* the session stored under the identifier by now, or a new one without
\* token_hash, or RuntimeError at capacity.
GetOrCreate(c) ==
    /\ caller[c].at = "missed"
    /\ LET id == caller[c].id
           new == [id |-> id, token_hash |-> <<>>]
       IN  IF id \in DOMAIN vault
           THEN /\ caller' = [caller EXCEPT ![c].at = "returned", ![c].status_code = 200,
                                            ![c].session = vault[id], ![c].existing = TRUE]
                /\ vault' = vault
           ELSE IF at_capacity(vault)
           THEN /\ caller' = [caller EXCEPT ![c].at = "raised", ![c].status_code = 500]
                /\ vault' = vault
           ELSE /\ caller' = [caller EXCEPT ![c].at = "returned", ![c].status_code = 200,
                                            ![c].session = new]
                /\ vault' = Put(vault, id, new)
    /\ UNCHANGED DEV_MODE
    /\ UNCHANGED besidesAuth

\* The handler behind the dependency has answered; the thread is free again.
Respond(c) ==
    /\ caller[c].at \in {"returned", "raised"}
    /\ caller' = [caller EXCEPT ![c] = NoCall]
    /\ UNCHANGED <<DEV_MODE, vault>>
    /\ UNCHANGED besidesAuth

\* create_new_session: uuid4 identifier (one that is not stored and that no
\* request under way has named), generated token, only its hash stored.
create_new_session ==
    /\ ~at_capacity(vault)
    /\ \E id \in SessionIds \ DOMAIN vault, token \in Tokens :
          /\ \A c \in Threads : caller[c].id # id
          /\ vault' = Put(vault, id, [id |-> id, token_hash |-> hash_token(token)])
    /\ UNCHANGED <<DEV_MODE, caller>>
    /\ UNCHANGED besidesAuth

\* manager.delete_session (or the sweep) removes a session from the store.
RemoveSession(id) ==
    /\ id \in DOMAIN vault
    /\ vault' = Drop(vault, {id})
    /\ UNCHANGED <<DEV_MODE, caller>>
    /\ UNCHANGED besidesAuth

AuthInit ==
    /\ DEV_MODE \in BOOLEAN
    /\ vault = NoSessions
    /\ caller = [c \in Threads |-> NoCall]
    /\ GateIdle
    /\ StoreIdle
    /\ EditIdle
    /\ LoopIdle
    /\ CheckIdle
    /\ CostIdle

AuthNext ==
    \/ \E c \in Threads : CallGetSession(c)
    \/ \E c \in Threads : CallGetOrCreateSession(c)
    \/ \E c \in Threads : ValidateToken(c)
    \/ \E c \in Threads : GetOrCreate(c)
    \/ \E c \in Threads : Respond(c)
    \/ create_new_session
    \/ \E id \in SessionIds : RemoveSession(id)

AuthSpec == AuthInit /\ [][AuthNext]_vars

\* C32: outside DEV mode a request is given access to an existing session
\* only if its Authorization header carries a bearer token whose SHA-256
\* hash equals the token_hash stored in that session; without a token, with
\* another token, or for a session without token_hash, the dependency
\* (get_session or get_or_create_session) raises 401; and a stored
\* token_hash is a hash, never the token.
C32_AccessNeedsMatchingToken ==
    /\ \A c \in Threads :
          (~DEV_MODE /\ caller[c].existing) =>
              /\ caller[c].at = "returned" =>
                    /\ caller[c].session.token_hash # <<>>
                    /\ startswith_bearer(caller[c].authorization)
                    /\ hash_token(replace_bearer(caller[c].authorization))
                          = caller[c].session.token_hash
              /\ caller[c].at = "raised" => caller[c].status_code = 401
    /\ \A id \in DOMAIN vault :
          vault[id].token_hash \in {<<>>} \cup { hash_token(token) : token \in Tokens }

(***************************************************************************)
(* Properties of the gate towards the requests of one session.             *)
(***************************************************************************)
SameSession(r, q) == r # q /\ owner(r) = owner(q)

\* C31: the gate applies no session-level mutual exclusion: an admitted
\* request that finds a free slot takes it and becomes Running in that
\* step, whatever the other requests of its session are doing, also
\* when one of them is Running; it waits in Queued only when no slot is
\* free or somebody is already waiting; and Running requests of one
\* session each hold a slot of their own.
C31_Step ==
    \A r \in Requests :
        (pc[r] = "Admitted" /\ pc'[r] # "Admitted") =>
            IF FreeSlots > 0 /\ sem.waiters = <<>>
            THEN /\ pc'[r] = "Running"
                 /\ acquires(r)' = acquires(r) + 1
                 /\ FreeSlots' = FreeSlots - 1
            ELSE pc'[r] = "Queued"

C31_State ==
    \A s \in Sessions :
        LET mine == { r \in Requests : owner(r) = s /\ pc[r] = "Running" }
        IN  /\ mine \subseteq SlotHolders
            /\ Cardinality(mine) + FreeSlots <= MAX_CONCURRENT_CALCULATIONS

C31_NoSessionExclusion == []C31_State /\ [][C31_Step]_vars

\* Two requests of one session are Running at once, both engine calls are
\* executing, and each holds a slot it has not released.
C31_Witness ==
    \E r, q \in Requests :
        /\ SameSession(r, q)
        /\ pc[r] = "Running" /\ pc[q] = "Running"
        /\ job[r] = "running" /\ job[q] = "running"
        /\ acquires(r) = 1 /\ releases(r) = 0
        /\ acquires(q) = 1 /\ releases(q) = 0

\* The engine call of r starts in this step (a pool worker takes its work item).
EngineStarts(r) == job[r] # "running" /\ job'[r] = "running"

\* C33 as stated: every computation that enters Running runs a model within
\* both ceilings at the moment the engine call starts, whatever another
\* request did to the session's model between the admission check and the
\* dispatch.
C33_EngineRunsAdmissibleModel_AsStated ==
    [][\A r \in Requests :
          /\ (pc[r] # "Running" /\ pc'[r] = "Running") => check_budget(owner(r), 0)
          /\ EngineStarts(r) => check_budget(owner(r), 0)]_vars

\* C33, amended: the admission check runs once, in the step that leaves
\* Requested, on the model the session has at that moment, and only a
\* request that passed it is dispatched; the check is not repeated: a
\* mutation of the session's model changes no request's position, and a
\* request that was admitted is never Rejected afterwards, so its engine
\* call may start on a model that the check would reject.
C33_Step ==
    \A r \in Requests :
        /\ (pc[r] = "Requested" /\ pc'[r] # "Requested") =>
              IF check_budget(owner(r), 0)
              THEN pc'[r] = "Admitted" /\ hist'[r] = <<"admit">>
              ELSE pc'[r] = "Rejected" /\ hist'[r] = <<>>
        /\ pc[r] \notin {"Requested", "Rejected"} => pc'[r] # "Rejected"
        /\ pc[r] # "Requested" => Count(hist'[r], "admit") = Count(hist[r], "admit")
        /\ (EngineStarts(r) \/ (pc[r] # "Running" /\ pc'[r] = "Running")) =>
              Count(hist[r], "admit") = 1
        /\ model' # model => pc' = pc /\ job' = job /\ sem' = sem /\ hist' = hist

C33_CheckedOnceAtRequest == [][C33_Step]_vars

\* The engine call of a request is executing while its session's model is
\* above a ceiling: the model was changed after the request was admitted.
C33_Witness ==
    \E r \in Requests :
        /\ pc[r] = "Running"
        /\ job[r] = "running"
        /\ Count(hist[r], "admit") = 1
        /\ ~check_budget(owner(r), 0)

(***************************************************************************)
(* Properties of get and create towards a session that is already stored.  *)
(***************************************************************************)
\* Thread t is in the body of get_session for a stored session that is_expired
\* would report expired now (no sweep has removed it yet).
GetsExpired(t) ==
    /\ tpc[t] = "body"
    /\ op[t].kind = "get"
    /\ op[t].id \in DOMAIN sessions
    /\ is_expired(sessions[op[t].id], now)

\* C34 as stated: get never returns an expired session: when the idle time
\* of the stored session exceeds the timeout, get answers not-found (or
\* creates a fresh session under auto_create) and does not reset the
\* session's last access.
C34_GetNeverReturnsExpired_AsStated ==
    [][\A t \in Threads :
          (GetsExpired(t) /\ tpc'[t] # "body") =>
              /\ result'.tag # "found" \/ tpc'[t] = "reenter"
              /\ op[t].id \in DOMAIN sessions' =>
                    sessions'[op[t].id].last_accessed = sessions[op[t].id].last_accessed]_vars

\* C34, amended: get does not look at the idle time: a session that is
\* still in the store is returned whether or not its idle time exceeds the
\* timeout, and its last access is set to the current time, so an expired
\* session that no sweep has removed yet is revived (it is not expired
\* after the get); expiry takes effect only in the sweep.
C34_Step ==
    \A t \in Threads :
        (BodyStep(t, "get") /\ op[t].id \in DOMAIN sessions) =>
            /\ result'.tag = "found"
            /\ tpc'[t] = "idle"
            /\ DOMAIN sessions' = DOMAIN sessions
            /\ sessions'[op[t].id].last_accessed = now
            /\ ~is_expired(sessions'[op[t].id], now')
            /\ GetsExpired(t) => sessions'[op[t].id] # sessions[op[t].id]

C34_GetRevivesExpired == [][C34_Step]_vars

\* A get is under the lock for a stored session whose idle time exceeds the
\* timeout: the session it is about to return is expired.
C34_Witness ==
    \E t \in Threads :
        /\ GetsExpired(t)
        /\ lock.owner = t
        /\ now - sessions[op[t].id].last_accessed > SESSION_TIMEOUT_SECONDS

Stopped(l) == loops[l] # "unborn" /\ cleanup_thread # l

\* C36: once stop_cleanup has returned, the sweep is stopped: the stopped
\* loop makes no sweep pass afterwards, and at the next test of its loop
\* (within one sweep interval) it sees the stop request and ends, whatever
\* start and stop calls follow.
C36_StoppedLoopSweepsNoMore ==
    [][\A l \in LoopThreads :
          Stopped(l) =>
              /\ ~(loops[l] = "sleeping" /\ loops'[l] = "checking")
              /\ (loops[l] = "checking" /\ loops'[l] # "checking") => loops'[l] = "exited"]_vars

(***************************************************************************)
(* Properties of the additional cost of enabling reflectance.              *)
(***************************************************************************)
\* This step is an accepted PATCH /room that turns reflectance on.
EnablesReflectance ==
    /\ reply'.handler = "update_session_room"
    /\ reply'.status_code = 200
    /\ ~the_session.ref_manager.enabled
    /\ the_session'.ref_manager.enabled

\* The additional cost update_session_room hands to check_budget.
CheckedEnablingCost ==
    estimate(the_session).total_grid_points * 5 * COST_PER_REFLECTANCE_POINT

\* C37: for the enable-reflectance mutation the additional cost that is
\* checked equals the increase in budget_units the mutation causes: after an
\* accepted room update that enables reflectance, budget_units is the
\* budget_units before plus the additional cost that was checked, and so
\* within the unit ceiling.
C37_EnablingCostIsTheIncrease ==
    [][EnablesReflectance =>
          /\ estimate(the_session').budget_units
                = estimate(the_session).budget_units + CheckedEnablingCost
          /\ estimate(the_session').budget_units <= MAX_SESSION_BUDGET]_vars

\* C38: every rejection of check_budget carries at least one remediation
\* suggestion, whatever the model and the additional cost.
C38_RejectionHasSuggestion ==
    Rejected => Len(reply.result.detail.suggestions) >= 1

====
